---- MODULE Spec2Model ----
(***************************************************************************)
(* CardiBot: the issue syncer (src/src/sync.rs) that reconciles Discord    *)
(* forum threads with GitHub issues, together with the state of the two    *)
(* external systems it reads and writes.                                   *)
(*                                                                         *)
(* Text is modelled as a sequence of one-character strings, so that the    *)
(* prefix test and the thread-id codec work on characters as the code's    *)
(* do.  An Option is a sequence of length 0 (None) or 1 (Some).            *)
(***************************************************************************)
EXTENDS Integers, Sequences, FiniteSets, TLC

VARIABLES
    config,           \* Config: [enabled, projects]; immutable after load
    issues,           \* the tracker: issue number -> [repo, title, state]
    threads,          \* the chat platform: thread id -> channel record
    messages,         \* thread id -> its most recent messages, newest first
    pc,               \* where IssueSyncer::start stands
    project,          \* index into config.projects of the project in hand
    open_issues,      \* sync_project: the search result of this cycle
    open_thread_ids,  \* sync_project: the ids decoded from open_issues
    oi,               \* sync_project: position of the open-issue loop
    active_threads,   \* sync_discord_threads: the listing of this cycle
    ti,               \* sync_discord_threads: position of the thread loop
    existing_threads, \* sync_project: open issues whose thread was found
    missing_threads,  \* sync_project: open issues whose thread was not
    failures,         \* how many external calls have failed so far
    budget,           \* how many external calls may fail in the run
    calls,            \* history: external calls of the cycle in hand, in order
    reconciled,       \* history: projects passed to sync_project in this tick
    ret,              \* history: how the last sync_project ended, and whether
                      \* sync_all_projects has returned
    previous,         \* history: project -> how its cycle before the one in
                      \* `calls` went
    previous_failed,  \* history: project -> the corrective actions that failed
                      \* in that cycle
    given_title,      \* extract_thread_id: the title handed to it
    decoded,          \* extract_thread_id: what it returned
    commands,         \* handle_issue_command: invocation -> where it stands
                      \* and what it holds
    archiver          \* archive_locked_threads: where it stands, the listing
                      \* and count of the project in hand, and history: the
                      \* edits issued for it and how the last project ended

vars == <<config, issues, threads, messages, pc, project, open_issues,
          open_thread_ids, oi, active_threads, ti, existing_threads,
          missing_threads, failures, budget, calls, reconciled, ret, previous,
          previous_failed, given_title, decoded, commands, archiver>>

----------------------------------------------------------------------------
(* Bounds of the model *)

NumProjects == 2
MaxThread == 2
MaxIssue == 2
NumCommands == 2
\* at most this many external calls fail for reasons of transport in one run
MaxFailures == 1

----------------------------------------------------------------------------
(* Option values *)

None == <<>>
Some(x) == <<x>>
IsSome(o) == Len(o) = 1
Unwrap(o) == o[1]

Min(S) == CHOOSE x \in S : \A y \in S : x <= y

----------------------------------------------------------------------------
(* Constants of src/src/constants.rs *)

DISCORD_MESSAGE_FETCH_LIMIT == 50

PREFIX_BUG == <<"[", "B", "U", "G", "]">>
PREFIX_FEATURE == <<"[", "F", "E", "A", "T", "U", "R", "E", "]">>
PREFIX_QUESTION == <<"[", "Q", "U", "E", "S", "T", "I", "O", "N", "]">>
PREFIX_FEEDBACK == <<"[", "F", "E", "E", "D", "B", "A", "C", "K", "]">>
THREAD_PREFIXES == <<PREFIX_BUG, PREFIX_FEATURE, PREFIX_QUESTION, PREFIX_FEEDBACK>>

MSG_ISSUE_CREATED == "GitHub Issue Created"
MSG_ISSUE_UPDATED == "GitHub Issue Updated"
\* the two texts begin with an emoji, written here by its name
MSG_ISSUE_CLOSED == ":lock: Issue closed or merged on GitHub"
MSG_ISSUE_REOPENED == ":unlock: Issue reopened on GitHub"

----------------------------------------------------------------------------
(* Text helpers: str::starts_with, u64::to_string, str::parse::<u64> *)

starts_with(s, p) == Len(p) <= Len(s) /\ SubSeq(s, 1, Len(p)) = p

AsciiDigits == <<"0", "1", "2", "3", "4", "5", "6", "7", "8", "9">>
IsAsciiDigit(c) == \E d \in 1..10 : AsciiDigits[d] = c
DigitVal(c) == (CHOOSE d \in 1..10 : AsciiDigits[d] = c) - 1

\* A decimal digit outside ASCII (ARABIC-INDIC DIGIT THREE), held as one character.
ARABIC_THREE == "U+0663"
\* The class \d of the regex crate is Unicode-aware: every decimal digit (Nd).
IsRegexDigit(c) == IsAsciiDigit(c) \/ c = ARABIC_THREE

RECURSIVE to_string(_)
to_string(n) ==
    IF n < 10 THEN <<AsciiDigits[n + 1]>>
    ELSE to_string(n \div 10) \o <<AsciiDigits[(n % 10) + 1]>>

RECURSIVE strip_zeros(_)
strip_zeros(ds) ==
    IF Len(ds) > 1 /\ ds[1] = "0" THEN strip_zeros(Tail(ds)) ELSE ds

RECURSIVE digits_value(_)
digits_value(ds) ==
    IF ds = <<>> THEN 0
    ELSE 10 * digits_value(SubSeq(ds, 1, Len(ds) - 1)) + DigitVal(ds[Len(ds)])

\* 2^64 - 1 = 18446744073709551615, digit by digit
U64_MAX_DIGITS == <<"1", "8", "4", "4", "6", "7", "4", "4", "0", "7", "3", "7",
                    "0", "9", "5", "5", "1", "6", "1", "5">>

RECURSIVE digits_leq(_, _)
digits_leq(a, b) ==
    IF Len(a) # Len(b) THEN Len(a) < Len(b)
    ELSE IF a = <<>> THEN TRUE
    ELSE IF a[1] # b[1] THEN DigitVal(a[1]) < DigitVal(b[1])
    ELSE digits_leq(Tail(a), Tail(b))

\* 2^63 - 1 = 9223372036854775807, digit by digit
I64_MAX_DIGITS == <<"9", "2", "2", "3", "3", "7", "2", "0", "3", "6", "8", "5",
                    "4", "7", "7", "5", "8", "0", "7">>

\* variant: the digits are parsed as a signed 64-bit integer
parse_u64_signed(s) ==
    LET ds == IF s # <<>> /\ s[1] = "+" THEN Tail(s) ELSE s
        sig == strip_zeros(ds)
    IN  IF ds = <<>> \/ \E i \in 1..Len(ds) : ~IsAsciiDigit(ds[i]) THEN None
        ELSE IF ~digits_leq(sig, I64_MAX_DIGITS) THEN None
        ELSE IF Len(sig) <= 9 THEN Some(digits_value(sig))
        ELSE Some(sig)

\* variant: a numeral beyond the range is taken for the largest u64
parse_u64_saturating(s) ==
    LET ds == IF s # <<>> /\ s[1] = "+" THEN Tail(s) ELSE s
        sig == strip_zeros(ds)
    IN  IF ds = <<>> \/ \E i \in 1..Len(ds) : ~IsAsciiDigit(ds[i]) THEN None
        ELSE IF ~digits_leq(sig, U64_MAX_DIGITS) THEN Some(U64_MAX_DIGITS)
        ELSE IF Len(sig) <= 9 THEN Some(digits_value(sig))
        ELSE Some(sig)

\* str::parse::<u64>: an optional '+', then one or more ASCII digits, no overflow.
\* A value of more than nine significant digits is kept as its digit sequence.
parse_u64(s) ==
    LET ds == IF s # <<>> /\ s[1] = "+" THEN Tail(s) ELSE s
        sig == strip_zeros(ds)
    IN  IF ds = <<>> \/ \E i \in 1..Len(ds) : ~IsAsciiDigit(ds[i]) THEN None
        ELSE IF ~digits_leq(sig, U64_MAX_DIGITS) THEN None
        ELSE IF Len(sig) <= 9 THEN Some(digits_value(sig))
        ELSE Some(sig)

----------------------------------------------------------------------------
(* The thread-id codec *)

\* variant: the brackets are optional, any run of digits is an id
extract_thread_id_bare(title) ==
    LET starts == {i \in 1..Len(title) : IsRegexDigit(title[i])}
    IN  IF starts = {} THEN None
        ELSE LET i == Min(starts)
                 stops == {j \in i..Len(title) :
                              j = Len(title) \/ ~IsRegexDigit(title[j + 1])}
             IN  parse_u64(SubSeq(title, i, Min(stops)))

\* Regex \[(\d+)\]: the leftmost '[' that is followed by one or more digits and ']'.
bracket_end(title, i) ==
    LET ends == {j \in (i + 2)..Len(title) :
                    /\ title[j] = "]"
                    /\ \A k \in (i + 1)..(j - 1) : IsRegexDigit(title[k])}
    IN  IF ends = {} THEN 0 ELSE Min(ends)

extract_thread_id(title) ==
    LET starts == {i \in 1..Len(title) : title[i] = "[" /\ bracket_end(title, i) # 0}
    IN  IF starts = {} THEN None
        ELSE LET i == Min(starts)
             IN  parse_u64(SubSeq(title, i + 1, bracket_end(title, i) - 1))

\* github.rs: format!("{} [{}]", original_title, thread.id)
issue_title(name, id) == name \o <<" ", "[">> \o to_string(id) \o <<"]">>

----------------------------------------------------------------------------
(* Records of the two external systems *)

PublicThread == "PublicThread"
PrivateThread == "PrivateThread"

CardiBot == [name |-> "cardibot", bot |-> TRUE]

\* An embed description is a sequence of whitespace-separated words; a word that
\* starts with "https://github.com/" carries the '/'-separated rest as its path.
Word(text) == [url |-> FALSE, path |-> <<text>>]
GithubUrl(path) == [url |-> TRUE, path |-> path]

\* commands.rs: format!("**Issue**: {}", result.issue.html_url)
issue_description(owner, number) ==
    <<Word("**Issue**:"), GithubUrl(<<owner, <<"r">>, <<"i", "s", "s", "u", "e", "s">>, to_string(number)>>)>>

\* commands.rs: the embed handle_issue_command posts into the thread
issue_notification(embed_title, owner, number) ==
    [author |-> CardiBot,
     content |-> "",
     embeds |-> <<[title |-> Some(embed_title),
                   description |-> Some(issue_description(owner, number))]>>]

\* CreateMessage::new().content(text): a plain message of the bot, no embed
plain_message(text) == [author |-> CardiBot, content |-> text, embeds |-> <<>>]

----------------------------------------------------------------------------
(* History of external calls *)

\* op: the call; thread: the thread it is about (0: none); ok: whether it
\* succeeded; content: the text sent, or the state of the issue fetched; locked,
\* archived: the flags an edit sets, or a channel lookup returned; fetched: the
\* messages a fetch returned
Call(op, thread, ok, content, locked, archived) ==
    [op |-> op, thread |-> thread, ok |-> ok, content |-> content,
     locked |-> locked, archived |-> archived, fetched |-> <<>>]

SearchCall(ok) == Call("search", 0, ok, "", FALSE, FALSE)
GetChannelCall(t, ok) ==
    Call("get_channel", t, ok, "",
         ok /\ threads[t].locked, ok /\ threads[t].archived)
SendCall(t, text, ok) == Call("send_message", t, ok, text, FALSE, FALSE)
EditCall(t, locked, archived, ok) == Call("edit_thread", t, ok, "", locked, archived)
ListCall(ok) == Call("get_active_threads", 0, ok, "", FALSE, FALSE)
MessagesCall(t, ok, fetched) ==
    [Call("messages", t, ok, "", FALSE, FALSE) EXCEPT !.fetched = fetched]
GetIssueCall(t, state, ok) == Call("get_issue", t, ok, state, FALSE, FALSE)

IsCorrective(c) == c.op \in {"send_message", "edit_thread"}

----------------------------------------------------------------------------
(* Effects of the chat-platform calls on the chat platform *)

\* a fetch that returns every message of the thread
take_all(s, n) == s

Take(s, n) == SubSeq(s, 1, IF Len(s) < n THEN Len(s) ELSE n)

\* Only the newest DISCORD_MESSAGE_FETCH_LIMIT messages can ever be fetched again.
Posted(msgs, t, msg) ==
    [msgs EXCEPT ![t] = Take(<<msg>> \o @, DISCORD_MESSAGE_FETCH_LIMIT)]

Edited(ths, t, locked, archived) ==
    [ths EXCEPT ![t].locked = locked, ![t].archived = archived]

RECURSIVE AfterCalls(_, _)
\* threads and messages after the successful calls of cs have taken effect
AfterCalls(state, cs) ==
    IF cs = <<>> THEN state
    ELSE LET c == Head(cs)
             next ==
                IF ~c.ok THEN state
                ELSE IF c.op = "send_message"
                THEN [state EXCEPT !.messages =
                          Posted(@, c.thread, plain_message(c.content))]
                ELSE IF c.op = "edit_thread"
                THEN [state EXCEPT !.threads =
                          Edited(@, c.thread, c.locked, c.archived)]
                ELSE state
         IN  AfterCalls(next, Tail(cs))

----------------------------------------------------------------------------
(* config.rs *)

default_sync_enabled == TRUE
default_sync_interval == 10
default_sync_prefixes == <<PREFIX_BUG, PREFIX_FEATURE, PREFIX_QUESTION>>

\* Config::load, lines 12-20: toml::from_str gives an absent [sync] section as
\* None and fills each absent field of a present one with its serde default.
\* A section is None or Some record of fields, each None or Some value.
load_sync(section) ==
    IF ~IsSome(section) THEN None
    ELSE LET given == Unwrap(section)
         IN  Some([enabled |->
                      IF IsSome(given.enabled) THEN Unwrap(given.enabled)
                      ELSE default_sync_enabled,
                   interval_seconds |->
                      IF IsSome(given.interval_seconds)
                      THEN Unwrap(given.interval_seconds)
                      ELSE default_sync_interval,
                   thread_prefixes |-> default_sync_prefixes])

\* Config::sync_config: the sync section, or the defaults when it is absent
sync_config(cfg) ==
    IF IsSome(cfg.sync) THEN Unwrap(cfg.sync)
    ELSE [enabled |-> default_sync_enabled,
          interval_seconds |-> default_sync_interval,
          thread_prefixes |-> default_sync_prefixes]

\* a start that does not test the flag
sync_always(cfg) == TRUE

\* IssueSyncer::start, line 33: the test that lets the loop begin
sync_enabled(cfg) == sync_config(cfg).enabled

----------------------------------------------------------------------------
(* sync.rs: the decisions of the reconciler *)

\* variant: the set is still being filled when the passes begin
decoded_ids_first(found) ==
    {Unwrap(extract_thread_id(found[i].title)) : i \in 1..Min({1, Len(found)})}

\* sync_project, lines 83-86 and 93-94: the ids the open issues decode to
decoded_ids(found) ==
    {Unwrap(extract_thread_id(found[i].title)) : i \in 1..Len(found)}

\* a variant that stops at the first issue whose title decodes
RECURSIVE with_first_thread_id(_)
with_first_thread_id(items) ==
    IF items = <<>> THEN <<>>
    ELSE IF IsSome(extract_thread_id(Head(items).title)) THEN <<Head(items)>>
    ELSE with_first_thread_id(Tail(items))

\* search_issues, lines 140-143: keep the issues whose title decodes
RECURSIVE with_thread_ids(_)
with_thread_ids(items) ==
    IF items = <<>> THEN <<>>
    ELSE IF IsSome(extract_thread_id(Head(items).title))
         THEN <<Head(items)>> \o with_thread_ids(Tail(items))
         ELSE with_thread_ids(Tail(items))

\* the tracker's answer to "repo:<owner>/<repo> is:<state> in:title"
RECURSIVE search_page(_, _, _)
search_page(repo, state, n) ==
    IF n > Len(issues) THEN <<>>
    ELSE IF issues[n].repo = repo /\ issues[n].state = state
         THEN <<[number |-> n, title |-> issues[n].title]>>
                  \o search_page(repo, state, n + 1)
         ELSE search_page(repo, state, n + 1)

\* a search that answers a failed request with an empty result
search_issues_lenient(repo, state, ok) ==
    IF ok THEN Some(with_thread_ids(search_page(repo, state, 1))) ELSE Some(<<>>)

\* search_issues, lines 121-146: Err when the request fails (`?`, line 138), else
\* the filtered page
search_issues(repo, state, ok) ==
    IF ok THEN Some(with_thread_ids(search_page(repo, state, 1))) ELSE None

\* a test that holds of every thread
needs_reopen_always(is_locked, is_archived) == TRUE

\* sync_open_issue, line 167
needs_reopen(is_locked, is_archived) == is_locked \/ is_archived

\* the two calls of a reopen in the other order
reopen_calls_edit_first(t, send_ok, edit_ok) ==
    <<EditCall(t, FALSE, FALSE, edit_ok)>>
        \o (IF edit_ok THEN <<SendCall(t, MSG_ISSUE_REOPENED, send_ok)>> ELSE <<>>)

\* sync_open_issue, lines 169-179: notification first, then the edit; each `?`
\* returns at the first failure
reopen_calls(t, send_ok, edit_ok) ==
    <<SendCall(t, MSG_ISSUE_REOPENED, send_ok)>>
        \o (IF send_ok THEN <<EditCall(t, FALSE, FALSE, edit_ok)>> ELSE <<>>)

\* a close that locks the thread and leaves it unarchived
close_calls_unsent(t, send_ok, edit_ok) ==
    <<SendCall(t, MSG_ISSUE_CLOSED, send_ok), EditCall(t, TRUE, TRUE, edit_ok)>>

\* a variant that locks the thread and leaves it unarchived
close_calls_lock_only(t, send_ok, edit_ok) ==
    <<SendCall(t, MSG_ISSUE_CLOSED, send_ok)>>
        \o (IF send_ok THEN <<EditCall(t, TRUE, FALSE, edit_ok)>> ELSE <<>>)

\* sync_discord_threads, lines 293-303
close_calls(t, send_ok, edit_ok) ==
    <<SendCall(t, MSG_ISSUE_CLOSED, send_ok)>>
        \o (IF send_ok THEN <<EditCall(t, TRUE, TRUE, edit_ok)>> ELSE <<>>)

AllOk(cs) == \A i \in 1..Len(cs) : cs[i].ok

\* variant: a failed lookup is no reason to leave the thread alone
sync_open_issue_eager(p, thread_id, fail_at) ==
    IF thread_id = 0
    THEN [calls |-> <<>>, result |-> "panic"]
    ELSE IF ~IsSome(parse_u64(config.projects[p].discord_guild_id))
    THEN [calls |-> <<>>, result |-> "Err"]
    ELSE IF thread_id \notin DOMAIN threads
    THEN [calls |-> <<GetChannelCall(thread_id, FALSE)>>, result |-> "Ok(false)"]
    ELSE LET thread == threads[thread_id]
             lookup == <<GetChannelCall(thread_id, fail_at # 1)>>
         IN  IF thread.kind = PublicThread
                    /\ needs_reopen(thread.locked, thread.archived)
             THEN LET cs == reopen_calls(thread_id, fail_at # 2, fail_at # 3)
                  IN  [calls |-> lookup \o cs,
                       result |-> IF AllOk(cs) THEN "Ok(true)" ELSE "Err"]
             ELSE [calls |-> lookup, result |-> "Ok(true)"]

\* sync_open_issue as a whole: the calls it makes and what it returns
\* fail_at numbers the call that fails (0: none): get_channel, send, edit
sync_open_issue(p, thread_id, fail_at) ==
    IF thread_id = 0
    THEN [calls |-> <<>>, result |-> "panic"]          \* ChannelId::new(0)
    ELSE IF ~IsSome(parse_u64(config.projects[p].discord_guild_id))
    THEN [calls |-> <<>>, result |-> "Err"]
    ELSE IF fail_at = 1 \/ thread_id \notin DOMAIN threads
    THEN [calls |-> <<GetChannelCall(thread_id, FALSE)>>, result |-> "Ok(false)"]
    ELSE LET thread == threads[thread_id]
             lookup == <<GetChannelCall(thread_id, TRUE)>>
         IN  IF thread.kind = PublicThread
                    /\ needs_reopen(thread.locked, thread.archived)
             THEN LET cs == reopen_calls(thread_id, fail_at # 2, fail_at # 3)
                  IN  [calls |-> lookup \o cs,
                       result |-> IF AllOk(cs) THEN "Ok(true)" ELSE "Err"]
             ELSE [calls |-> lookup, result |-> "Ok(true)"]

\* sync_discord_threads, lines 223-224
has_valid_prefix(thread_name) ==
    \E i \in 1..Len(THREAD_PREFIXES) : starts_with(thread_name, THREAD_PREFIXES[i])

\* a variant that does not look at the open thread ids
sweep_skips_any(thread, forum_id, ids) ==
    \/ thread.parent_id # Some(forum_id)
    \/ ~has_valid_prefix(thread.name)
    \/ thread.archived \/ thread.locked

\* A variant that remembers the cycle before: a thread of a project found idle
\* then is passed over now.
sweep_skips_remembering(thread, forum_id, ids) ==
    \/ thread.parent_id # Some(forum_id)
    \/ ~has_valid_prefix(thread.name)
    \/ thread.archived \/ thread.locked
    \/ thread.id \in ids
    \/ previous[project] = "idle"

\* sync_discord_threads, lines 217-244: the four `continue`s before discovery
sweep_skips(thread, forum_id, ids) ==
    \/ thread.parent_id # Some(forum_id)
    \/ ~has_valid_prefix(thread.name)
    \/ thread.archived \/ thread.locked
    \/ thread.id \in ids

\* lines 262-268: the first word holding "https://github.com/", up to whitespace
RECURSIVE github_url(_)
github_url(desc) ==
    IF desc = <<>> THEN None
    ELSE IF Head(desc).url THEN Some(Head(desc).path)
    ELSE github_url(Tail(desc))

\* lines 258-272: an embed of a notification yields the URL of its description
embed_url(embed) ==
    IF (embed.title = Some(MSG_ISSUE_CREATED) \/ embed.title = Some(MSG_ISSUE_UPDATED))
           /\ IsSome(embed.description)
    THEN github_url(Unwrap(embed.description))
    ELSE None

\* lines 257-274: the embeds of one message, left at the first URL (`break`)
RECURSIVE first_embed_url(_)
first_embed_url(embeds) ==
    IF embeds = <<>> THEN None
    ELSE IF IsSome(embed_url(Head(embeds))) THEN embed_url(Head(embeds))
    ELSE first_embed_url(Tail(embeds))

\* lines 256: only messages whose author is a bot account are read
message_url(msg) == IF msg.author.bot THEN first_embed_url(msg.embeds) ELSE None

\* lines 254-276: the loop over the messages goes on after a URL was found (the
\* `break` leaves the embed loop only), so a later message's URL replaces it
RECURSIVE scan_messages(_, _)
scan_messages(msgs, found) ==
    IF msgs = <<>> THEN found
    ELSE scan_messages(Tail(msgs),
                       IF IsSome(message_url(Head(msgs)))
                       THEN message_url(Head(msgs)) ELSE found)

\* a scan that starts from the URL an earlier thread left behind
discover_stale(msgs) ==
    scan_messages(msgs, Some(issue_description(<<"o">>, 1)[2].path))

\* lines 247-276: github_issue_url starts as None for each thread
discover(msgs) == scan_messages(msgs, None)

\* a variant that reads the digits of the last segment and drops the rest
issue_number_lenient(url) == parse_u64(SelectSeq(url[Len(url)], IsAsciiDigit))

\* lines 280-281: issue_url.split('/').last() parsed as u64
issue_number(url) == parse_u64(url[Len(url)])

\* octocrab issues(owner, repo).get(number): Err when the request fails or the
\* repository holds no such issue
get_issue(repo, number, ok) ==
    IF ok /\ number \in DOMAIN issues /\ issues[number].repo = repo
    THEN Some(issues[number]) ELSE None

\* one iteration of the loop of sync_discord_threads, lines 215-315
\* fail_at numbers the call that fails (0: none): messages, get issue, send, edit
sweep_thread(p, thread, forum_id, ids, fail_at) ==
    IF sweep_skips(thread, forum_id, ids)
    THEN [calls |-> <<>>, result |-> "continue"]
    ELSE IF fail_at = 1
    THEN [calls |-> <<MessagesCall(thread.id, FALSE, <<>>)>>, result |-> "Err"]
    ELSE LET fetched == Take(messages[thread.id], DISCORD_MESSAGE_FETCH_LIMIT)
             github_issue_url == discover(fetched)
             fetch == <<MessagesCall(thread.id, TRUE, fetched)>>
         IN  IF ~IsSome(github_issue_url)
                    \/ ~IsSome(issue_number(Unwrap(github_issue_url)))
             THEN [calls |-> fetch, result |-> "continue"]
             ELSE LET n == Unwrap(issue_number(Unwrap(github_issue_url)))
                      issue == get_issue(p, n, fail_at # 2)
                  IN  IF ~IsSome(issue)
                      THEN [calls |-> fetch \o <<GetIssueCall(thread.id, "", FALSE)>>,
                            result |-> "continue"]
                      ELSE LET lookup ==
                                   <<GetIssueCall(thread.id, Unwrap(issue).state, TRUE)>>
                           IN  IF Unwrap(issue).state = "closed"
                               THEN LET cs == close_calls(thread.id, fail_at # 3, fail_at # 4)
                                    IN  [calls |-> fetch \o lookup \o cs,
                                         result |-> IF AllOk(cs) THEN "continue"
                                                    ELSE "Err"]
                               ELSE [calls |-> fetch \o lookup, result |-> "continue"]

\* guild_id.get_active_threads: the guild's threads as they are at the call
RECURSIVE listing(_)
listing(n) ==
    IF n > MaxThread THEN <<>>
    ELSE <<[id |-> n, parent_id |-> threads[n].parent_id, name |-> threads[n].name,
            kind |-> threads[n].kind, locked |-> threads[n].locked,
            archived |-> threads[n].archived]>> \o listing(n + 1)

----------------------------------------------------------------------------
(* The initial states: a loaded configuration and the two external systems *)

Projects == 1..NumProjects
ThreadIds == 1..MaxThread

ForumId(p) == 10 + p

ProjectConfig(p) ==
    [discord_guild_id |-> <<"9">>,
     discord_forum_id |-> to_string(ForumId(p)),
     github_owner |-> <<"o">>,
     allowed_role_id |-> None]

SyncChoices ==
    {None, Some([enabled |-> FALSE, interval_seconds |-> default_sync_interval,
                 thread_prefixes |-> default_sync_prefixes])}

\* The threads the guild may hold at the start, each a state the platform and the
\* bot's commands can bring a thread to.  `linked` says whether the thread carries
\* the notification that the issue command posts.
Thread(parent, name, kind, locked, archived, linked) ==
    [parent_id |-> Some(parent), name |-> name, kind |-> kind,
     locked |-> locked, archived |-> archived, linked |-> linked]

Prefixed == PREFIX_BUG \o <<" ", "x">>
Unprefixed == <<"x">>

\* posts of the first project's forum, open or closed, with or without a prefix
ForumPosts ==
    {Thread(ForumId(1), Prefixed, PublicThread, FALSE, FALSE, TRUE),
     Thread(ForumId(1), Prefixed, PublicThread, FALSE, FALSE, FALSE),
     Thread(ForumId(1), Prefixed, PublicThread, TRUE, TRUE, TRUE),
     Thread(ForumId(1), Unprefixed, PublicThread, TRUE, TRUE, FALSE)}

\* a post that is locked only, an open post without prefix that carries a
\* notification, a private thread, and a post of the last project's forum
OtherThreads ==
    {Thread(ForumId(1), Prefixed, PublicThread, TRUE, FALSE, FALSE),
     Thread(ForumId(1), Unprefixed, PublicThread, FALSE, FALSE, TRUE),
     Thread(ForumId(1), Prefixed, PrivateThread, TRUE, TRUE, FALSE),
     Thread(ForumId(NumProjects), Prefixed, PublicThread, FALSE, FALSE, TRUE)}

\* thread 1 may be any of these, the threads after it are posts of the forum
ThreadChoices(t) == IF t = 1 THEN ForumPosts \cup OtherThreads ELSE ForumPosts

\* The issues the tracker may hold, all in the first project's repository.  Issue
\* n was filed from thread n, whose notification links to it: its title names
\* thread n, open or closed, or was edited since: the first issue's to name no
\* thread, a later issue's to name thread 1.
IssueChoices(n) ==
    {[repo |-> 1, title |-> issue_title(<<"x">>, n), state |-> "open"],
     [repo |-> 1, title |-> issue_title(<<"x">>, n), state |-> "closed"],
     [repo |-> 1, state |-> "open",
      title |-> IF n = 1 THEN <<"x">> ELSE issue_title(<<"x">>, 1)]}

thread_record(c) ==
    [parent_id |-> c.parent_id, name |-> c.name, kind |-> c.kind,
     locked |-> c.locked, archived |-> c.archived]

CommandIds == 1..NumCommands

\* an invocation of the issue command that has not arrived: the channel it is
\* invoked in, the roles of the member who invokes it, the project found for
\* it once the member is let through, the issue the search found, the issue
\* it updated or created, and whether it created it
NoCommand ==
    [pc |-> "idle", thread |-> 0, roles |-> {}, project |-> 0, found |-> None,
     issue |-> 0, was_updated |-> FALSE]

\* archive_locked_threads has not been run
NoArchiver ==
    [pc |-> "idle", project |-> 0, threads |-> <<>>, i |-> 0, archived_count |-> 0,
     edits |-> <<>>, ret |-> [project |-> 0, result |-> "none", count |-> 0]]

\* the syncer as IssueSyncer::new leaves it, before start is polled, no
\* command has arrived and the archiving tool has not been run
AtStart ==
    /\ pc = "start"
    /\ project = 0
    /\ open_issues = <<>>
    /\ open_thread_ids = {}
    /\ oi = 0
    /\ active_threads = <<>>
    /\ ti = 0
    /\ existing_threads = 0
    /\ missing_threads = 0
    /\ failures = 0
    /\ calls = <<>>
    /\ reconciled = <<>>
    /\ ret = [project |-> 0, result |-> "none", pass |-> "none"]
    /\ previous = [p \in Projects |-> "none"]
    /\ previous_failed = [p \in Projects |-> {}]
    /\ commands = [c \in CommandIds |-> NoCommand]
    /\ archiver = NoArchiver

\* no title is being decoded
NoTitle == given_title = <<>> /\ decoded = None

Init ==
    /\ config \in [sync : SyncChoices,
                   projects : {[p \in Projects |-> ProjectConfig(p)]}]
    /\ \E i \in [1..MaxIssue -> UNION {IssueChoices(n) : n \in 1..MaxIssue}] :
          /\ \A n \in 1..MaxIssue : i[n] \in IssueChoices(n)
          /\ issues = i
    /\ \E c \in [ThreadIds -> ForumPosts \cup OtherThreads] :
          /\ \A t \in ThreadIds : c[t] \in ThreadChoices(t)
          /\ threads = [t \in ThreadIds |-> thread_record(c[t])]
          /\ messages = [t \in ThreadIds |->
                            IF c[t].linked
                            THEN <<issue_notification(MSG_ISSUE_CREATED, <<"o">>, t)>>
                            ELSE <<>>]
    /\ budget = MaxFailures
    /\ AtStart
    /\ NoTitle

----------------------------------------------------------------------------
(* Failures of external calls *)

\* the outcomes an external call may have: success, or failure while the run has
\* failures left
CallOutcomes == IF failures < budget THEN BOOLEAN ELSE {TRUE}

\* which call of an item's calls may fail: none (0), or, while the run has
\* failures left, any one of them
FailPoints(cs) == IF failures < budget THEN 0..Len(cs) ELSE {0}

----------------------------------------------------------------------------
(* IssueSyncer *)

\* start, line 43: tokio::time::interval panics when the period is zero
interval_panics(period) == period = 0

\* start, lines 30-44: return when disabled, else build the interval
Start ==
    /\ pc = "start"
    /\ pc' = IF ~sync_enabled(config) THEN "returned"
             ELSE IF interval_panics(sync_config(config).interval_seconds)
             THEN "panicked"
             ELSE "tick"
    /\ UNCHANGED <<config, issues, threads, messages, project, open_issues,
                   open_thread_ids, oi, active_threads, ti, failures, calls,
                   reconciled, ret, previous,
                   existing_threads, missing_threads, budget, previous_failed, given_title, decoded, commands, archiver>>

\* a task per tick: a pass may begin whenever the loop has begun
ticks_freely(at) == at \notin {"start", "returned"}

\* start, lines 45-47: the loop awaits the interval only after
\* sync_all_projects has returned
awaits_tick(at) == at = "tick"

\* start, lines 45-48, and sync_all_projects, lines 55-57: a tick of the interval
\* begins a pass over config.projects
Tick ==
    /\ awaits_tick(pc)
    /\ reconciled' = <<>>
    /\ IF Len(config.projects) = 0
       THEN UNCHANGED <<pc, project>>
       ELSE pc' = "search" /\ project' = 1
    /\ UNCHANGED <<config, issues, threads, messages, open_issues,
                   open_thread_ids, oi, active_threads, ti, failures, calls, ret, previous,
                   existing_threads, missing_threads, budget, previous_failed, given_title, decoded, commands, archiver>>

\* a pass that `?` ends at the first project whose cycle returns Err
after_project_abort(p, result) ==
    IF result = "Err" THEN [pc |-> "tick", project |-> p, pass |-> "Err"]
    ELSE IF p < Len(config.projects)
    THEN [pc |-> "search", project |-> p + 1, pass |-> "running"]
    ELSE [pc |-> "tick", project |-> p, pass |-> "Ok"]

\* sync_all_projects, lines 57-66: whatever sync_project returned, go on with the
\* next project; after the last one the pass returns Ok(()) and start awaits the
\* next tick
after_project(p, result) ==
    IF p < Len(config.projects)
    THEN [pc |-> "search", project |-> p + 1, pass |-> "running"]
    ELSE [pc |-> "tick", project |-> p, pass |-> "Ok"]

\* sync_project has returned `result`
FinishProject(result) ==
    /\ ret' = [project |-> project, result |-> result,
               pass |-> after_project(project, result).pass]
    /\ pc' = after_project(project, result).pc
    /\ project' = after_project(project, result).project

\* how a cycle went, told from its calls: whether any failed, and whether it
\* sent or edited
summary(cs) ==
    IF \E i \in 1..Len(cs) : IsCorrective(cs[i]) /\ ~cs[i].ok THEN "write_failed"
    ELSE IF ~AllOk(cs) THEN "read_failed"
    ELSE IF \E i \in 1..Len(cs) : IsCorrective(cs[i]) THEN "acted"
    ELSE "idle"

\* the corrective actions of a cycle that failed, told from its calls: a failed
\* send or edit of a reopen, or of a close
failed_actions(cs) ==
    {<<cs[i].thread,
       IF cs[i].content = MSG_ISSUE_REOPENED
             \/ (cs[i].op = "edit_thread" /\ ~cs[i].locked)
       THEN "reopen" ELSE "close">> :
        i \in {j \in 1..Len(cs) : IsCorrective(cs[j]) /\ ~cs[j].ok}}

\* sync_project, lines 75-86: the search, and the set of open thread ids; the
\* history of the cycle that ended last is summed up as a new one begins
SearchIssues ==
    /\ pc = "search"
    /\ \E ok \in CallOutcomes :
          LET found == search_issues(project, "open", ok)
          IN  /\ calls' = <<SearchCall(ok)>>
              /\ failures' = failures + (IF ok THEN 0 ELSE 1)
              /\ reconciled' = Append(reconciled, project)
              /\ previous' = IF ret.project = 0 THEN previous
                              ELSE [previous EXCEPT ![ret.project] = summary(calls)]
              /\ previous_failed' =
                    IF ret.project = 0 THEN previous_failed
                    ELSE [previous_failed EXCEPT
                              ![ret.project] = failed_actions(calls)]
              /\ existing_threads' = 0
              /\ missing_threads' = 0
              /\ active_threads' = <<>>
              /\ ti' = 0
              /\ IF ~IsSome(found)
                 THEN /\ FinishProject("Err")
                      /\ open_issues' = <<>>
                      /\ open_thread_ids' = {}
                      /\ oi' = 0
                 ELSE /\ open_issues' = Unwrap(found)
                      /\ open_thread_ids' = decoded_ids(Unwrap(found))
                      /\ oi' = 1
                      /\ pc' = IF Unwrap(found) = <<>> THEN "list" ELSE "open"
                      /\ UNCHANGED <<project, ret>>
    /\ UNCHANGED <<config, issues, threads, messages,
                   budget, given_title, decoded, commands, archiver>>

\* sync_project, line 94: the id of the open issue in hand
open_thread_id == Unwrap(extract_thread_id(open_issues[oi].title))

\* sync_project, lines 93-104: one open issue; an Err of sync_open_issue is logged
\* and the loop goes on
SyncOpenIssue ==
    /\ pc = "open"
    /\ \E fail_at \in FailPoints(sync_open_issue(project, open_thread_id, 0).calls) :
          LET r == sync_open_issue(project, open_thread_id, fail_at)
              after == AfterCalls([threads |-> threads, messages |-> messages], r.calls)
          IN  /\ calls' = calls \o r.calls
              /\ failures' = failures + (IF fail_at = 0 THEN 0 ELSE 1)
              /\ threads' = after.threads
              /\ messages' = after.messages
              /\ oi' = oi + 1
              /\ existing_threads' =
                    existing_threads + (IF r.result = "Ok(true)" THEN 1 ELSE 0)
              /\ missing_threads' =
                    missing_threads + (IF r.result \in {"Ok(false)", "Err"} THEN 1 ELSE 0)
              /\ pc' = IF r.result = "panic" THEN "panicked"
                       ELSE IF oi + 1 > Len(open_issues) THEN "list" ELSE "open"
    /\ UNCHANGED <<config, issues, project, open_issues, open_thread_ids,
                   active_threads, ti, reconciled, ret, previous,
                   budget, previous_failed, given_title, decoded, commands, archiver>>

\* sync_discord_threads, lines 206-207: both ids of the project parse
ids_parse(p) ==
    /\ IsSome(parse_u64(config.projects[p].discord_guild_id))
    /\ IsSome(parse_u64(config.projects[p].discord_forum_id))

\* sync_discord_threads, lines 206-212: parse the ids, list the active threads; an
\* Err is logged by sync_project (lines 114-116), which still returns Ok(())
GetActiveThreads ==
    /\ pc = "list"
    /\ \E ok \in IF ids_parse(project) THEN CallOutcomes ELSE {TRUE} :
          LET parsed == ids_parse(project)
              found == IF parsed /\ ok THEN listing(1) ELSE <<>>
          IN  /\ calls' = IF parsed THEN Append(calls, ListCall(ok)) ELSE calls
              /\ failures' = failures + (IF ok THEN 0 ELSE 1)
              /\ active_threads' = found
              /\ ti' = 1
              /\ IF found = <<>>
                 THEN FinishProject("Ok")
                 ELSE pc' = "sweep" /\ UNCHANGED <<project, ret>>
    /\ UNCHANGED <<config, issues, threads, messages, open_issues,
                   open_thread_ids, oi, reconciled, previous,
                   existing_threads, missing_threads, budget, previous_failed, given_title, decoded, commands, archiver>>

\* sync_discord_threads, line 207
forum_id == Unwrap(parse_u64(config.projects[project].discord_forum_id))

\* sync_discord_threads, lines 215-315: one thread of the listing; a `?` that
\* fails ends the whole sweep
SweepThread ==
    /\ pc = "sweep"
    /\ \E fail_at \in FailPoints(sweep_thread(project, active_threads[ti], forum_id,
                                                open_thread_ids, 0).calls) :
          LET r == sweep_thread(project, active_threads[ti], forum_id,
                                open_thread_ids, fail_at)
              after == AfterCalls([threads |-> threads, messages |-> messages], r.calls)
          IN  /\ calls' = calls \o r.calls
              /\ failures' = failures + (IF fail_at = 0 THEN 0 ELSE 1)
              /\ threads' = after.threads
              /\ messages' = after.messages
              /\ IF r.result = "Err"
                 THEN /\ ti' = ti
                      /\ FinishProject("Ok")
                 ELSE /\ ti' = ti + 1
                      /\ IF ti + 1 > Len(active_threads)
                         THEN FinishProject("Ok")
                         ELSE pc' = "sweep" /\ UNCHANGED <<project, ret>>
    /\ UNCHANGED <<config, issues, open_issues, open_thread_ids, oi,
                   active_threads, reconciled, previous,
                   existing_threads, missing_threads, budget, previous_failed, given_title, decoded, commands, archiver>>

Next ==
    \/ Start
    \/ Tick
    \/ SearchIssues
    \/ SyncOpenIssue
    \/ GetActiveThreads
    \/ SweepThread

Spec == Init /\ [][Next]_vars

----------------------------------------------------------------------------
(* The syncer in worlds outside the ordinary: an issue whose title names     *)
(* thread 0, an open issue that names a private thread, a post that is       *)
(* locked but not archived, a project whose forum id or guild id is no       *)
(* number.  Every project's repository and forum are as in ProjectConfig     *)
(* unless the world says otherwise.                                          *)

IssueAbout(t, state) ==
    [repo |-> 1, title |-> issue_title(<<"x">>, t), state |-> state]

\* a post of the first project's forum that carries its issue's notification
Post(locked, archived) ==
    Thread(ForumId(1), Prefixed, PublicThread, locked, archived, TRUE)

\* newer[t]: how many closed notices the bot has posted to thread t since the
\* issue's notification
World(projects, issue_list, thread_list, newer, failure_budget) ==
    [projects |-> projects, issues |-> issue_list, threads |-> thread_list,
     newer |-> newer, budget |-> failure_budget]

NoneNewer == [t \in ThreadIds |-> 0]

PlainProjects == [p \in Projects |-> ProjectConfig(p)]

\* the first project's configuration with one id replaced
ProjectsWith(field, value) ==
    [p \in Projects |->
        IF p = 1 THEN [ProjectConfig(p) EXCEPT ![field] = value]
        ELSE ProjectConfig(p)]

\* issue 1 is open and its title names thread 0; the other issues are open and
\* their threads closed
ZeroTitleWorld ==
    World(PlainProjects,
          [n \in 1..MaxIssue |-> IssueAbout(IF n = 1 THEN 0 ELSE n, "open")],
          [t \in ThreadIds |-> Post(TRUE, TRUE)],
          NoneNewer, MaxFailures)

\* every issue is open; thread 1 is a closed private thread, the others are
\* closed posts
PrivateThreadWorld ==
    World(PlainProjects,
          [n \in 1..MaxIssue |-> IssueAbout(n, "open")],
          [t \in ThreadIds |->
              IF t = 1
              THEN Thread(ForumId(1), Prefixed, PrivateThread, TRUE, TRUE, TRUE)
              ELSE Post(TRUE, TRUE)],
          NoneNewer, MaxFailures)

\* every issue is closed; thread 1 is locked but not archived, the others are
\* open posts
LockedOnlyWorld ==
    World(PlainProjects,
          [n \in 1..MaxIssue |-> IssueAbout(n, "closed")],
          [t \in ThreadIds |-> IF t = 1 THEN Post(TRUE, FALSE) ELSE Post(FALSE, FALSE)],
          NoneNewer, MaxFailures)

\* issue 1 is open and the others closed; thread 1 is closed and the others are
\* open; `field` of the first project is no number
BadIdWorld(field) ==
    World(ProjectsWith(field, <<"f">>),
          [n \in 1..MaxIssue |-> IssueAbout(n, IF n = 1 THEN "open" ELSE "closed")],
          [t \in ThreadIds |-> IF t = 1 THEN Post(TRUE, TRUE) ELSE Post(FALSE, FALSE)],
          NoneNewer, MaxFailures)

\* issue 1 is closed and the others open; thread 1 is open and its notification
\* is the oldest message a fetch returns, the other threads are closed
DeepLinkWorld ==
    World(PlainProjects,
          [n \in 1..MaxIssue |-> IssueAbout(n, IF n = 1 THEN "closed" ELSE "open")],
          [t \in ThreadIds |-> IF t = 1 THEN Post(FALSE, FALSE) ELSE Post(TRUE, TRUE)],
          [t \in ThreadIds |-> IF t = 1 THEN DISCORD_MESSAGE_FETCH_LIMIT - 1 ELSE 0],
          MaxFailures)

OddWorlds ==
    {ZeroTitleWorld, PrivateThreadWorld, LockedOnlyWorld, DeepLinkWorld,
     BadIdWorld("discord_forum_id"), BadIdWorld("discord_guild_id")}

\* the messages of a thread at the start, newest first: the closed notices, then
\* the notification a linked thread carries
first_messages(w, t) ==
    [i \in 1..w.newer[t] |-> plain_message(MSG_ISSUE_CLOSED)]
        \o (IF w.threads[t].linked
            THEN <<issue_notification(MSG_ISSUE_CREATED, <<"o">>, t)>> ELSE <<>>)

WorldIs(w) ==
    /\ config = [sync |-> None, projects |-> w.projects]
    /\ issues = w.issues
    /\ threads = [t \in ThreadIds |-> thread_record(w.threads[t])]
    /\ messages = [t \in ThreadIds |-> first_messages(w, t)]
    /\ budget = w.budget

InWorld(w) == WorldIs(w) /\ AtStart /\ NoTitle

OddInit == \E w \in OddWorlds : InWorld(w)

\* start has returned, or the task that runs it has died of a panic
Halted == pc \in {"returned", "panicked"}

\* tokio polls the spawned task while it can make progress, the interval ticks
\* again and again, and an awaited call ends with Ok or Err: each step of the
\* syncer that stays possible is taken.  SearchIssues, SyncOpenIssue and
\* SweepThread are enabled exactly when pc is at them; their weak fairness is
\* written with that test in place of ENABLED.
Fairness ==
    /\ WF_vars(Start)
    /\ WF_vars(Tick)
    /\ WF_vars(GetActiveThreads)
    /\ ([]<>(pc # "search") \/ []<><<SearchIssues>>_vars)
    /\ ([]<>(pc # "open") \/ []<><<SyncOpenIssue>>_vars)
    /\ ([]<>(pc # "sweep") \/ []<><<SweepThread>>_vars)

FairSpec == OddInit /\ [][Next]_vars /\ Fairness

----------------------------------------------------------------------------
(* The syncer started from each shape of the [sync] section of config.toml   *)

\* the [sync] section as written in the file: absent, or present with each of
\* enabled and interval_seconds absent or given, the interval being any u64
SyncSections ==
    {None} \cup
    {Some([enabled |-> e, interval_seconds |-> i]) :
        e \in {None, Some(TRUE), Some(FALSE)},
        i \in {None, Some(60), Some(5), Some(0)}}

ConfigInit ==
    /\ \E section \in SyncSections :
          config = [sync |-> load_sync(section), projects |-> PlainProjects]
    /\ issues = DeepLinkWorld.issues
    /\ threads = [t \in ThreadIds |-> thread_record(DeepLinkWorld.threads[t])]
    /\ messages = [t \in ThreadIds |-> first_messages(DeepLinkWorld, t)]
    /\ budget = MaxFailures
    /\ AtStart
    /\ NoTitle

ConfigSpec == ConfigInit /\ [][Next]_vars

----------------------------------------------------------------------------
(* The sweep over a thread whose notification lies near the end of the       *)
(* fetched window or beyond it                                               *)

\* how many closed notices lie above the notification of thread 1: it is
\* inside the window, its last message, or beyond it
Depths ==
    {DISCORD_MESSAGE_FETCH_LIMIT - 2, DISCORD_MESSAGE_FETCH_LIMIT - 1,
     DISCORD_MESSAGE_FETCH_LIMIT, DISCORD_MESSAGE_FETCH_LIMIT + 1}

\* Thread 1 is an open post with its notification at any of the depths, the
\* other threads are closed posts; issues 1 and 2 are open or closed, the
\* others closed; the title of issue 1 names thread 1 or, edited since, no
\* thread; thread 1 is a bug report or a feedback post; the other threads are
\* posts of the first project's forum or of the last project's.
WindowInit ==
    \E depth \in Depths, states \in [1..2 -> {"open", "closed"}],
       title \in {issue_title(<<"x">>, 1), <<"x">>},
       name \in {Prefixed, PREFIX_FEEDBACK \o <<" ", "x">>},
       forum \in {ForumId(1), ForumId(NumProjects)} :
        InWorld(World(PlainProjects,
                      [n \in 1..MaxIssue |->
                          IF n = 1
                          THEN [repo |-> 1, title |-> title, state |-> states[1]]
                          ELSE IssueAbout(n, IF n <= 2 THEN states[n] ELSE "closed")],
                      [t \in ThreadIds |->
                          IF t = 1
                          THEN Thread(ForumId(1), name, PublicThread, FALSE, FALSE, TRUE)
                          ELSE Thread(forum, Prefixed, PublicThread, TRUE, TRUE, TRUE)],
                      [t \in ThreadIds |-> IF t = 1 THEN depth ELSE 0],
                      MaxFailures))

WindowSpec == WindowInit /\ [][Next]_vars

----------------------------------------------------------------------------
(* The sweep over threads whose newest messages are of every kind the scan   *)
(* of sync_discord_threads tells apart                                       *)

MaxWindow == 2

Human == [name |-> "human", bot |-> FALSE]
OtherBot == [name |-> "otherbot", bot |-> TRUE]

\* the path of the URL of issue `number`, as issue_description writes it
IssuePath(number) == issue_description(<<"o">>, number)[2].path

\* a message with one embed whose description holds a URL
embed_message(author, embed_title, path) ==
    [author |-> author,
     content |-> "",
     embeds |-> <<[title |-> Some(embed_title),
                   description |-> Some(<<Word("**Issue**:"), GithubUrl(path)>>)]>>]

\* the URL of a comment of issue 2: its last segment is "2#c", no number
CommentPath ==
    SubSeq(IssuePath(2), 1, Len(IssuePath(2)) - 1) \o <<<<"2", "#", "c">>>>

\* the messages a thread may hold: the bot's notifications of issues 1 and 2,
\* the same embed posted by a person and by another bot account, and
\* notifications whose URL ends in no number or in the number of no issue
MessageKinds ==
    {issue_notification(MSG_ISSUE_CREATED, <<"o">>, 1),
     issue_notification(MSG_ISSUE_UPDATED, <<"o">>, 2),
     embed_message(Human, MSG_ISSUE_CREATED, IssuePath(2)),
     embed_message(OtherBot, MSG_ISSUE_CREATED, IssuePath(2)),
     embed_message(CardiBot, MSG_ISSUE_CREATED, CommentPath),
     embed_message(CardiBot, MSG_ISSUE_CREATED, IssuePath(MaxIssue + 1))}

\* the windows of n messages, newest first
RECURSIVE WindowsOf(_)
WindowsOf(n) ==
    IF n = 0 THEN {<<>>}
    ELSE {<<m>> \o rest : m \in MessageKinds, rest \in WindowsOf(n - 1)}

Windows == UNION {WindowsOf(n) : n \in 0..MaxWindow}

\* Thread 1 is an open post of the first project's forum and holds any window;
\* the other threads are closed posts that carry the notification of issue 1.
\* Issues 1 and 2 are open or closed, the others closed; issue n names thread
\* n, but issue 1 may name thread 2 as issue 2 does.
SweepInit ==
    /\ config = [sync |-> None, projects |-> PlainProjects]
    /\ \E states \in [1..2 -> {"open", "closed"}], first \in 1..2 :
          issues = [n \in 1..MaxIssue |->
                       IssueAbout(IF n = 1 THEN first ELSE n,
                                  IF n <= 2 THEN states[n] ELSE "closed")]
    /\ threads = [t \in ThreadIds |->
                     thread_record(IF t = 1 THEN Post(FALSE, FALSE)
                                   ELSE Post(TRUE, TRUE))]
    /\ \E window \in Windows :
          messages = [t \in ThreadIds |->
                         IF t = 1 THEN window
                         ELSE <<issue_notification(MSG_ISSUE_CREATED, <<"o">>, 1)>>]
    /\ budget = MaxFailures
    /\ AtStart
    /\ NoTitle

SweepSpec == SweepInit /\ [][Next]_vars

----------------------------------------------------------------------------
(* The issue command beside the syncer: Bot::interaction_create runs          *)
(* handle_issue_command for each invocation, and the invocations and the      *)
(* syncer's task interleave at every await                                    *)

\* the guild every thread of the model lives in
CommandGuild == 9

\* Config::find_project
find_project(guild_id, channel_id) ==
    LET fits == {p \in Projects :
                    /\ config.projects[p].discord_guild_id = to_string(guild_id)
                    /\ config.projects[p].discord_forum_id = to_string(channel_id)}
    IN  IF fits = {} THEN None
        ELSE Some(CHOOSE p \in fits : \A q \in fits : p <= q)

contains(text, part) ==
    \E i \in 1..(Len(text) - Len(part) + 1) :
        SubSeq(text, i, i + Len(part) - 1) = part

\* create_or_update_issue, lines 49-67: the issues of the repository, open or
\* closed, whose title holds "[<thread id>]"
title_search(repo, thread_id) ==
    {n \in DOMAIN issues :
        /\ issues[n].repo = repo
        /\ contains(issues[n].title, <<"[">> \o to_string(thread_id) \o <<"]">>)}

Command(c, pc_, thread, roles, p, found, issue, was_updated) ==
    [commands EXCEPT ![c] = [pc |-> pc_, thread |-> thread, roles |-> roles,
                             project |-> p, found |-> found, issue |-> issue,
                             was_updated |-> was_updated]]

\* the channels a command may be invoked in: the threads, and a forum itself
Channels == ThreadIds \cup {ForumId(1)}

\* handle_issue_command, lines 20-22: a guild channel with thread metadata
is_thread(channel) == channel \in DOMAIN threads

\* the roles a member holds, told apart as far as the configuration names them
Memberships ==
    SUBSET {Unwrap(parse_u64(Unwrap(config.projects[p].allowed_role_id))) :
               p \in {q \in Projects :
                          /\ IsSome(config.projects[q].allowed_role_id)
                          /\ IsSome(parse_u64(Unwrap(config.projects[q].allowed_role_id)))}}

\* every member is let through
role_unchecked(p, roles) == "pass"

\* handle_issue_command, lines 68-92: a project without a role lets everyone
\* through; a role that is no number is an Err; else the member must hold it
role_check(p, roles) ==
    LET required_role_id == config.projects[p].allowed_role_id
    IN  IF ~IsSome(required_role_id) THEN "pass"
        ELSE IF ~IsSome(parse_u64(Unwrap(required_role_id))) THEN "Err"
        ELSE IF Unwrap(parse_u64(Unwrap(required_role_id))) \in roles THEN "pass"
        ELSE "refused"

SyncerVars ==
    <<config, pc, project, open_issues, open_thread_ids, oi, active_threads, ti,
      existing_threads, missing_threads, failures, budget, calls, reconciled,
      ret, previous, previous_failed, given_title, decoded>>

\* handle_issue_command, lines 20-92, and create_or_update_issue, lines 49-67:
\* the command arrives in a channel and is turned away unless the channel is a
\* thread, the thread's parent is the forum of a project and the member holds
\* the role the project asks for; then it searches the tracker, and the
\* result's first item is any of the matches
CommandSearch ==
    /\ \E c \in CommandIds, t \in Channels, roles \in Memberships, ok \in BOOLEAN :
          /\ commands[c].pc = "idle"
          /\ LET p == IF is_thread(t) /\ IsSome(threads[t].parent_id)
                      THEN find_project(CommandGuild, Unwrap(threads[t].parent_id))
                      ELSE None
                 matches == title_search(Unwrap(p), t)
             IN  IF ~IsSome(p) \/ role_check(Unwrap(p), roles) # "pass"
                 THEN commands' = Command(c, "done", t, roles, 0, None, 0, FALSE)
                 ELSE IF ~ok
                 THEN commands' = Command(c, "done", t, roles, Unwrap(p), None, 0, FALSE)
                 ELSE \E found \in IF matches = {} THEN {None}
                                   ELSE {Some(n) : n \in matches} :
                         commands' = Command(c, "write", t, roles, Unwrap(p), found,
                                             0, FALSE)
    /\ UNCHANGED <<issues, threads, messages>>
    /\ UNCHANGED <<SyncerVars, archiver>>

\* create_or_update_issue, lines 70-124: the body of the issue found is
\* replaced, or an open issue titled "<thread name> [<thread id>]" is created
CommandWrite ==
    /\ \E c \in CommandIds, ok \in BOOLEAN :
          LET cmd == commands[c]
          IN  /\ cmd.pc = "write"
              /\ IF ~ok
                 THEN /\ commands' = [commands EXCEPT ![c].pc = "done"]
                      /\ UNCHANGED issues
                 ELSE IF IsSome(cmd.found)
                 THEN /\ commands' =
                            [commands EXCEPT ![c].pc = "notify",
                                             ![c].issue = Unwrap(cmd.found),
                                             ![c].was_updated = TRUE]
                      /\ UNCHANGED issues
                 ELSE /\ issues' =
                            Append(issues,
                                   [repo |-> cmd.project,
                                    title |-> issue_title(threads[cmd.thread].name,
                                                          cmd.thread),
                                    state |-> "open"])
                      /\ commands' =
                            [commands EXCEPT ![c].pc = "notify",
                                             ![c].issue = Len(issues) + 1]
    /\ UNCHANGED <<threads, messages>>
    /\ UNCHANGED <<SyncerVars, archiver>>

\* handle_issue_command, lines 135-153: the notification is posted in the thread
CommandNotify ==
    /\ \E c \in CommandIds, ok \in BOOLEAN :
          LET cmd == commands[c]
          IN  /\ cmd.pc = "notify"
              /\ commands' = [commands EXCEPT ![c].pc = "done"]
              /\ messages' =
                    IF ok
                    THEN Posted(messages, cmd.thread,
                                issue_notification(
                                    IF cmd.was_updated THEN MSG_ISSUE_UPDATED
                                    ELSE MSG_ISSUE_CREATED,
                                    config.projects[cmd.project].github_owner,
                                    cmd.issue))
                    ELSE messages
    /\ UNCHANGED <<issues, threads>>
    /\ UNCHANGED <<SyncerVars, archiver>>

\* a thread name that holds a bracketed number
Numbered == Prefixed \o <<" ", "[">> \o to_string(MaxThread) \o <<"]">>

\* Thread 1 is an open post of the first project's forum, named with or without
\* a bracketed number, and carries the notification of issue 1; the other
\* threads are closed posts.  Issue 1 is open or closed and its title names
\* thread 1 or, edited since, no thread; the other issues are closed.
CommandInit ==
    /\ config = [sync |-> None, projects |-> PlainProjects]
    /\ \E state \in {"open", "closed"}, title \in {issue_title(<<"x">>, 1), <<"x">>} :
          issues = [n \in 1..MaxIssue |->
                       IF n = 1 THEN [repo |-> 1, title |-> title, state |-> state]
                       ELSE IssueAbout(n, "closed")]
    /\ \E name \in {Prefixed, Numbered} :
          threads = [t \in ThreadIds |->
                        IF t = 1
                        THEN thread_record(Thread(ForumId(1), name, PublicThread,
                                                  FALSE, FALSE, TRUE))
                        ELSE thread_record(Post(TRUE, TRUE))]
    /\ messages = [t \in ThreadIds |->
                      <<issue_notification(MSG_ISSUE_CREATED, <<"o">>, t)>>]
    /\ budget = 0
    /\ AtStart
    /\ NoTitle

CommandNext ==
    \/ Next
    \/ CommandSearch
    \/ CommandWrite
    \/ CommandNotify

CommandSpec == CommandInit /\ [][CommandNext]_vars

----------------------------------------------------------------------------
(* archive_locked_threads, the tool that archives the threads left locked:   *)
(* for each project it lists the guild's threads and archives those of the   *)
(* project's forum that are locked and not archived                          *)

\* archive_project_threads, lines 46-47: the guild id and the forum id as
\* numbers; GuildId::new and ChannelId::new panic on 0
archive_ids(p) ==
    IF ~ids_parse(p) THEN "Err"
    ELSE IF 0 \in {Unwrap(parse_u64(config.projects[p].discord_guild_id)),
                   Unwrap(parse_u64(config.projects[p].discord_forum_id))}
    THEN "panic"
    ELSE "Ok"

\* every thread that is locked and not archived is archived
archives_any_locked(thread, forum) == thread.locked /\ ~thread.archived

\* archive_project_threads, lines 55-73: the thread is of the project's forum,
\* its name starts with one of THREAD_PREFIXES, it is locked and not archived
archives(thread, forum) ==
    /\ thread.parent_id = Some(forum)
    /\ has_valid_prefix(thread.name)
    /\ thread.locked /\ ~thread.archived

\* archive_project_threads, lines 78-79: EditThread::new().archived(true); a
\* field that is not set is left as it is
archive_edit == [locked |-> None, archived |-> Some(TRUE)]

\* the thread after an edit
edited(thread, edit) ==
    [thread EXCEPT !.locked = IF IsSome(edit.locked) THEN Unwrap(edit.locked) ELSE @,
                   !.archived = IF IsSome(edit.archived) THEN Unwrap(edit.archived)
                                ELSE @]

\* archive_locked_threads, lines 23-37: whatever archive_project_threads
\* returned, go on with the next project
ArchiveReturns(result, count, edits) ==
    archiver' =
        [archiver EXCEPT
            !.pc = IF result = "panic" THEN "panicked"
                   ELSE IF archiver.project < Len(config.projects) THEN "list"
                   ELSE "done",
            !.project = IF result # "panic" /\ archiver.project < Len(config.projects)
                        THEN archiver.project + 1 ELSE archiver.project,
            !.archived_count = count,
            !.edits = edits,
            !.ret = [project |-> archiver.project, result |-> result, count |-> count]]

\* archive_locked_threads, lines 9-23: the configuration is loaded and the
\* client built
ArchiveBegin ==
    /\ archiver.pc = "idle"
    /\ archiver' = [archiver EXCEPT !.pc = IF Len(config.projects) = 0 THEN "done"
                                           ELSE "list",
                                    !.project = IF Len(config.projects) = 0 THEN 0
                                                ELSE 1]
    /\ UNCHANGED <<issues, threads, messages, commands>>
    /\ UNCHANGED SyncerVars

\* archive_project_threads, lines 46-51: parse the ids and list the guild's
\* threads
ArchiveList ==
    /\ archiver.pc = "list"
    /\ \E ok \in BOOLEAN :
          IF archive_ids(archiver.project) # "Ok"
          THEN ArchiveReturns(archive_ids(archiver.project), 0, <<>>)
          ELSE IF ~ok THEN ArchiveReturns("Err", 0, <<>>)
          ELSE IF listing(1) = <<>> THEN ArchiveReturns("Ok", 0, <<>>)
          ELSE archiver' = [archiver EXCEPT !.pc = "loop", !.threads = listing(1),
                                            !.i = 1, !.archived_count = 0,
                                            !.edits = <<>>]
    /\ UNCHANGED <<issues, threads, messages, commands>>
    /\ UNCHANGED SyncerVars

\* archive_project_threads, lines 53-87: one thread of the listing; an edit
\* that fails ends the project with Err
ArchiveThread ==
    /\ archiver.pc = "loop"
    /\ LET thread == archiver.threads[archiver.i]
           forum == Unwrap(parse_u64(config.projects[archiver.project].discord_forum_id))
           last == archiver.i = Len(archiver.threads)
       IN  IF ~archives(thread, forum)
           THEN /\ IF last
                   THEN ArchiveReturns("Ok", archiver.archived_count, archiver.edits)
                   ELSE archiver' = [archiver EXCEPT !.i = @ + 1]
                /\ UNCHANGED threads
           ELSE \E ok \in BOOLEAN :
                   LET issued == Append(archiver.edits,
                                        [thread |-> thread.id, edit |-> archive_edit,
                                         ok |-> ok])
                   IN  IF ~ok
                       THEN /\ ArchiveReturns("Err", archiver.archived_count, issued)
                            /\ UNCHANGED threads
                       ELSE /\ threads' =
                                  [threads EXCEPT
                                      ![thread.id] = edited(@, archive_edit)]
                            /\ IF last
                               THEN ArchiveReturns("Ok", archiver.archived_count + 1,
                                                   issued)
                               ELSE archiver' =
                                       [archiver EXCEPT
                                           !.i = @ + 1,
                                           !.archived_count = @ + 1,
                                           !.edits = issued]
    /\ UNCHANGED <<issues, messages, commands>>
    /\ UNCHANGED SyncerVars

\* Every thread is of the first project's forum or of the last one's, named
\* with a prefix of the bug reports, with that of the feedback posts or with
\* none, locked or not and archived or not.  The forum id of the first
\* project is a number, no number, or 0.
ArchiveInit ==
    /\ \E forum_text \in {to_string(ForumId(1)), <<"f">>, <<"0">>} :
          config = [sync |-> None,
                    projects |-> ProjectsWith("discord_forum_id", forum_text)]
    /\ issues = [n \in 1..MaxIssue |-> IssueAbout(n, "closed")]
    /\ threads \in [ThreadIds ->
                       {thread_record(Thread(forum, name, PublicThread, locked,
                                             is_archived, FALSE)) :
                           forum \in {ForumId(1), ForumId(NumProjects)},
                           name \in {Prefixed, PREFIX_FEEDBACK \o <<" ", "x">>,
                                     Unprefixed},
                           locked \in BOOLEAN, is_archived \in BOOLEAN}]
    /\ messages = [t \in ThreadIds |-> <<>>]
    /\ budget = 0
    /\ AtStart
    /\ NoTitle

ArchiveNext ==
    \/ ArchiveBegin
    \/ ArchiveList
    \/ ArchiveThread

ArchiveSpec == ArchiveInit /\ [][ArchiveNext]_vars

----------------------------------------------------------------------------
(* The issue command under each configuration of the first project: its      *)
(* guild is the one the threads live in or another, and it asks for no role, *)
(* for a role, or for a role that is no number                               *)

RoleChoices == {None, Some(to_string(MaxThread + 1)), Some(<<"x">>)}

\* Thread 1 is an open post of the first project's forum; the other threads
\* are posts of the last project's forum or threads of a forum no project is
\* configured for.  Issue 1 names thread 1 and is open or closed.
AuthInit ==
    /\ \E guild \in {to_string(CommandGuild), to_string(CommandGuild + 1)},
          role \in RoleChoices :
          config = [sync |-> None,
                    projects |-> [p \in Projects |->
                        IF p = 1
                        THEN [ProjectConfig(p) EXCEPT !.discord_guild_id = guild,
                                                      !.allowed_role_id = role]
                        ELSE ProjectConfig(p)]]
    /\ \E state \in {"open", "closed"} :
          issues = [n \in 1..MaxIssue |->
                       IssueAbout(n, IF n = 1 THEN state ELSE "closed")]
    /\ \E forum \in {ForumId(NumProjects), ForumId(NumProjects + 1)} :
          threads = [t \in ThreadIds |->
                        thread_record(
                            Thread(IF t = 1 THEN ForumId(1) ELSE forum, Prefixed,
                                   PublicThread, FALSE, FALSE, TRUE))]
    /\ messages = [t \in ThreadIds |-> <<>>]
    /\ budget = 0
    /\ AtStart
    /\ NoTitle

AuthNext ==
    \/ CommandSearch
    \/ CommandWrite
    \/ CommandNotify

AuthSpec == AuthInit /\ [][AuthNext]_vars

----------------------------------------------------------------------------
(* The thread-id codec on its own: a title is handed to extract_thread_id    *)
(* and the call returns.  decoded holds what the call returned, None while   *)
(* it has not.                                                               *)

MaxParts == 2

Bracketed(content) == <<"[">> \o content \o <<"]">>

\* 2^64 = 18446744073709551616, digit by digit
U64_MAX_PLUS_ONE == SubSeq(U64_MAX_DIGITS, 1, 19) \o <<"6">>

\* what a title may hold between brackets
GroupContents ==
    {<<"0">>, <<"7">>, <<"4", "2">>, <<"0", "0", "7">>,
     <<"1", "2", "3", "4", "5", "6", "7", "8", "9", "0">>,
     U64_MAX_DIGITS, U64_MAX_PLUS_ONE, <<"0">> \o U64_MAX_DIGITS,
     <<"9">> \o U64_MAX_DIGITS,
     <<ARABIC_THREE>>, <<"1", ARABIC_THREE>>,
     <<"n", "o", "t", "-", "a", "-", "n", "u", "m", "b", "e", "r">>,
     <<"+", "5">>, <<>>}

\* what a title may hold outside brackets
Texts == {<<"B", "u", "g", " ">>, <<"#", "7">>, <<"[">>, <<"]">>, <<"5">>}

Parts == {Bracketed(c) : c \in GroupContents} \cup Texts

\* the titles made of n parts
RECURSIVE TitlesOf(_)
TitlesOf(n) ==
    IF n = 0 THEN {<<>>}
    ELSE {part \o rest : part \in Parts, rest \in TitlesOf(n - 1)}

Titles == UNION {TitlesOf(n) : n \in 0..MaxParts}

CodecInit ==
    /\ given_title \in Titles
    /\ decoded = None
    /\ WorldIs(LockedOnlyWorld)
    /\ AtStart

\* extract_thread_id(&issue.title) returns
Decode ==
    /\ decoded = None
    /\ decoded' = Some(extract_thread_id(given_title))
    /\ UNCHANGED <<config, issues, threads, messages, pc, project, open_issues,
                   open_thread_ids, oi, active_threads, ti, existing_threads,
                   missing_threads, failures, budget, calls, reconciled, ret,
                   previous, previous_failed, given_title, commands, archiver>>

CodecNext == Decode

CodecSpec == CodecInit /\ [][CodecNext]_vars

----------------------------------------------------------------------------
(* Properties of a reconciliation cycle, read from the history of its calls *)

\* a cycle of sync_project has returned and `calls` is its history
CycleEnded == pc \in {"search", "tick"} /\ ret.project # 0

\* the project whose cycle `calls` is the history of
Owner == IF pc \in {"open", "list", "sweep"} THEN project ELSE ret.project

\* how many issues of open_issues the open pass has dealt with
Processed == IF pc = "open" THEN oi - 1 ELSE Len(open_issues)

\* how many threads of active_threads the sweep has visited, the one it ended
\* on included
Visited ==
    IF pc = "sweep" THEN ti - 1
    ELSE IF ti > Len(active_threads) THEN Len(active_threads) ELSE ti

Lookups == {i \in 1..Len(calls) : calls[i].op = "get_channel"}

\* the position in calls of the k-th channel lookup
LookupOf(k) == CHOOSE i \in Lookups : Cardinality({j \in Lookups : j <= i}) = k

ThreadOf(issue) == Unwrap(extract_thread_id(issue.title))

IsSend(c, t, text) == c.op = "send_message" /\ c.thread = t /\ c.content = text

IsEdit(c, t, locked, archived) ==
    c.op = "edit_thread" /\ c.thread = t /\ c.locked = locked /\ c.archived = archived

\* calls[i] is followed by a send of text to t and, when the send succeeds, by an
\* edit of t to the flags given; when the send fails no edit follows
SendThenEdit(i, t, text, locked, archived) ==
    /\ i + 1 <= Len(calls)
    /\ IsSend(calls[i + 1], t, text)
    /\ calls[i + 1].ok =>
          i + 2 <= Len(calls) /\ IsEdit(calls[i + 2], t, locked, archived)
    /\ ~calls[i + 1].ok =>
          ~(i + 2 <= Len(calls) /\ calls[i + 2].op = "edit_thread")

\* calls[i] is followed by a send of text to t and then an edit of t to the flags
SendAndEdit(i, t, text, locked, archived) ==
    /\ i + 2 <= Len(calls)
    /\ IsSend(calls[i + 1], t, text)
    /\ IsEdit(calls[i + 2], t, locked, archived)

\* C1 (as the specification states it): for every open ticket dealt with, whose
\* title decodes to T, if the lookup of T succeeds and T is locked or archived,
\* the cycle sends the reopened notification to T and issues the edit
\* locked=false, archived=false, the send before the edit.
C1_Reopen_AsStated ==
    \A k \in 1..Processed :
        LET i == LookupOf(k)
            t == ThreadOf(open_issues[k])
        IN  (calls[i].ok /\ (calls[i].locked \/ calls[i].archived))
                => SendAndEdit(i, t, MSG_ISSUE_REOPENED, FALSE, FALSE)

\* C1 (amended): for every open ticket dealt with, whose title decodes to T (the
\* k-th channel lookup of the cycle being that of T for the k-th ticket), if the
\* lookup succeeds and returns a public thread that is locked or archived, the
\* cycle sends the reopened notification to T next and, if the send succeeds,
\* then issues the edit locked=false, archived=false; if the send fails it
\* issues no edit.
C1_Reopen ==
    /\ Cardinality(Lookups) = Processed
    /\ \A k \in 1..Processed :
          LET i == LookupOf(k)
              t == ThreadOf(open_issues[k])
          IN  /\ calls[i].thread = t
              /\ (/\ calls[i].ok
                  /\ threads[t].kind = PublicThread
                  /\ calls[i].locked \/ calls[i].archived)
                    => SendThenEdit(i, t, MSG_ISSUE_REOPENED, FALSE, FALSE)

\* a locked or archived thread named by an open ticket was notified and then
\* edited, and is open again
C1_Witness ==
    \E i \in Lookups :
        /\ calls[i].ok
        /\ calls[i].locked \/ calls[i].archived
        /\ SendAndEdit(i, calls[i].thread, MSG_ISSUE_REOPENED, FALSE, FALSE)
        /\ calls[i + 1].ok /\ calls[i + 2].ok
        /\ ~threads[calls[i].thread].locked
        /\ ~threads[calls[i].thread].archived

ClosedLookups ==
    {i \in 1..Len(calls) :
        calls[i].op = "get_issue" /\ calls[i].ok /\ calls[i].content = "closed"}

\* C2 (as the specification states it): for every thread the sweep finds
\* eligible and linked to a ticket whose fresh lookup returns closed, the cycle
\* sends the closed notification and issues the edit locked=true, archived=true,
\* the send before the edit.
C2_Close_AsStated ==
    \A i \in ClosedLookups :
        SendAndEdit(i, calls[i].thread, MSG_ISSUE_CLOSED, TRUE, TRUE)

\* the thread of the listing is one the sweep reads the messages of
Eligible(thread) ==
    /\ thread.parent_id = Some(ForumId(Owner))
    /\ has_valid_prefix(thread.name)
    /\ ~thread.locked /\ ~thread.archived
    /\ thread.id \notin open_thread_ids

\* C2 (amended): a fresh lookup that returns closed is made only for a thread of
\* the listing that is under the forum, prefixed, unlocked, unarchived and not
\* named by an open ticket; it is followed by the send of the closed notification
\* to that thread and, if the send succeeds, by the edit locked=true,
\* archived=true; if the send fails no edit is issued.
C2_Close ==
    \A i \in ClosedLookups :
        /\ \E k \in 1..Len(active_threads) :
              /\ active_threads[k].id = calls[i].thread
              /\ Eligible(active_threads[k])
        /\ SendThenEdit(i, calls[i].thread, MSG_ISSUE_CLOSED, TRUE, TRUE)

\* an open thread whose ticket is closed was notified and then edited, and is
\* locked and archived
C2_Witness ==
    \E i \in ClosedLookups :
        /\ SendAndEdit(i, calls[i].thread, MSG_ISSUE_CLOSED, TRUE, TRUE)
        /\ calls[i + 1].ok /\ calls[i + 2].ok
        /\ threads[calls[i].thread].locked
        /\ threads[calls[i].thread].archived

NoCorrectiveCall == \A i \in 1..Len(calls) : ~IsCorrective(calls[i])

\* no cycle of another project since the owner's previous cycle sent or edited
OthersQuiet ==
    \A q \in Projects \ {Owner} : previous[q] \in {"none", "idle", "read_failed"}

\* C3 (as the specification states it): if the corrective calls of a cycle all
\* succeed and nothing else changes, the project's following cycle issues no
\* send and no edit.
C3_Idempotent_AsStated ==
    (/\ Owner # 0
     /\ previous[Owner] \in {"idle", "acted", "read_failed"}
     /\ OthersQuiet) => NoCorrectiveCall

\* C3 (amended): if every external call of a cycle succeeds and nothing else
\* changes, the project's following cycle issues no send and no edit.
C3_Idempotent ==
    (/\ Owner # 0
     /\ previous[Owner] \in {"idle", "acted"}
     /\ OthersQuiet) => NoCorrectiveCall

\* a cycle that sent and edited, all calls succeeding, was followed by a whole
\* cycle of the same project, every call of which succeeded
C3_Witness ==
    /\ CycleEnded
    /\ previous[Owner] = "acted"
    /\ OthersQuiet
    /\ AllOk(calls)
    /\ \E i \in 1..Len(calls) : calls[i].op = "get_active_threads"
    /\ Lookups # {}
    /\ NoCorrectiveCall

\* the open tickets of the cycle whose titles decode to t
Naming(t) == {k \in 1..Len(open_issues) : ThreadOf(open_issues[k]) = t}

\* C4 (as the specification states it): when two or more open tickets decode to
\* the same thread id T, the cycle issues no send and no edit for T.
C4_Duplicates_AsStated ==
    \A i \in 1..Len(calls) :
        IsCorrective(calls[i]) => Cardinality(Naming(calls[i].thread)) < 2

\* C5 (as the specification states it): a thread whose name has no managed
\* category prefix is never sent a message or edited, whether or not an open
\* ticket names it.
C5_Unprefixed_AsStated ==
    \A i \in 1..Len(calls) :
        IsCorrective(calls[i]) => has_valid_prefix(threads[calls[i].thread].name)

\* the message is a notification of the bot that links a ticket: a bot's message
\* with an embed titled as the issue command titles it, whose description holds
\* a ticket URL
IsNotification(msg) ==
    /\ msg.author.bot
    /\ \E e \in 1..Len(msg.embeds) :
          /\ msg.embeds[e].title \in {Some(MSG_ISSUE_CREATED), Some(MSG_ISSUE_UPDATED)}
          /\ IsSome(msg.embeds[e].description)
          /\ \E w \in 1..Len(Unwrap(msg.embeds[e].description)) :
                Unwrap(msg.embeds[e].description)[w].url

Linked(fetched) == \E m \in 1..Len(fetched) : IsNotification(fetched[m])

\* the fetches of the cycle that returned the messages of thread t
FetchesOf(t) ==
    {j \in 1..Len(calls) :
        calls[j].op = "messages" /\ calls[j].thread = t /\ calls[j].ok}

\* C6: a send or an edit goes only to a thread that an open ticket of the cycle
\* names or whose scanned messages, fetched earlier in the cycle, hold a
\* notification of the bot that links a ticket; the reopened notification goes
\* only to the former, the closed notification only to the latter.
C6_Unlinked ==
    \A i \in 1..Len(calls) :
        IsCorrective(calls[i]) =>
            LET t == calls[i].thread
                scanned == \E j \in FetchesOf(t) : j < i /\ Linked(calls[j].fetched)
            IN  /\ t \in open_thread_ids \/ scanned
                /\ calls[i].content = MSG_ISSUE_REOPENED => t \in open_thread_ids
                /\ calls[i].content = MSG_ISSUE_CLOSED => scanned

\* the sweep fetched the messages of an open thread that no open ticket names,
\* found no notification among them, and the cycle ended without a send or an
\* edit for the thread
C6_Witness ==
    /\ CycleEnded
    /\ \E j \in 1..Len(calls) :
          /\ calls[j].op = "messages" /\ calls[j].ok
          /\ ~Linked(calls[j].fetched)
          /\ calls[j].thread \notin open_thread_ids
          /\ \A i \in 1..Len(calls) :
                IsCorrective(calls[i]) => calls[i].thread # calls[j].thread

\* C7 (as the specification states it): a failure while one thread is dealt with
\* skips that thread only; once the cycle has ended, every thread of the listing
\* has been visited by the sweep.
C7_ThreadIsolation_AsStated ==
    CycleEnded => \A k \in 1..Len(active_threads) : k <= Visited

\* C8: sync_all_projects goes on with the project after one whose cycle returned
\* Err, has passed every configured project to sync_project when it returns, and
\* returns Ok, after which the scheduler awaits the next tick.
C8_ProjectIsolation ==
    /\ (ret.result = "Err" /\ ret.project < Len(config.projects))
           => (pc \in {"search", "open", "list", "sweep"}
               /\ project = ret.project + 1)
    /\ (pc = "tick" /\ ret.project # 0)
           => (/\ reconciled = [i \in 1..Len(config.projects) |-> i]
               /\ ret.pass = "Ok")
    /\ ret.pass # "Err"
    /\ pc # "returned" \/ ret.project = 0

\* the first project's cycle returned Err and the second project's cycle is
\* under way in the same pass
C8_Witness ==
    /\ ret.project = 1 /\ ret.result = "Err"
    /\ project = 2 /\ pc \in {"list", "sweep"}
    /\ reconciled = <<1, 2>>

\* C9: when the search of a cycle fails, the search is the cycle's only call and
\* sync_project returns Err.
C9_SearchFailure ==
    (calls # <<>> /\ calls[1].op = "search" /\ ~calls[1].ok)
        => (/\ Len(calls) = 1
            /\ CycleEnded
            /\ ret.result = "Err")

\* a cycle ended with Err on its failed search, having made no other call
C9_Witness ==
    /\ CycleEnded
    /\ calls = <<SearchCall(FALSE)>>
    /\ ret.result = "Err"
    /\ ret.project = 1
    /\ \E t \in ThreadIds : threads[t].locked

\* C10: when the configuration has synchronisation disabled, start returns at
\* once: no tick, no cycle and no external call ever happens.
C10_Disabled ==
    (IsSome(config.sync) /\ ~Unwrap(config.sync).enabled)
        => (/\ pc \in {"start", "returned"}
            /\ calls = <<>>
            /\ reconciled = <<>>
            /\ ret.project = 0)

\* start has returned under a configuration that disables synchronisation
C10_Witness ==
    /\ IsSome(config.sync) /\ ~Unwrap(config.sync).enabled
    /\ pc = "returned"

\* C11 (as the specification states it): with synchronisation enabled, start
\* performs tick after tick without end, every pass hands each configured
\* project to sync_project once, in the order of the configuration, and start
\* never comes to an end.
C11_RunsForever_AsStated ==
    sync_enabled(config) =>
        /\ []<>(pc = "tick")
        /\ []~Halted
        /\ []((pc = "tick" /\ ret.project # 0)
                 => reconciled = [i \in 1..Len(config.projects) |-> i])

\* an issue of the tracker is open and its title decodes to thread t
OpenTicketNames(t) ==
    \E n \in 1..Len(issues) :
        /\ issues[n].state = "open"
        /\ extract_thread_id(issues[n].title) = Some(t)

\* C12 (as the specification states it): when the cycles are scheduled fairly
\* and the external calls succeed from some point on, every existing thread
\* that an open ticket keeps naming is eventually neither locked nor archived.
\* (Stated for configurations whose guild and forum ids are numbers.)
C12_OpenConverges_AsStated ==
    \A t \in ThreadIds :
        (OpenTicketNames(t) /\ \A p \in Projects : ids_parse(p))
            ~> (~threads[t].locked /\ ~threads[t].archived)

\* the messages of thread t that a fetch would return hold a notification of
\* the bot whose link leads to an issue that is closed
ClosedTicketLinked(t) ==
    LET url == discover(Take(messages[t], DISCORD_MESSAGE_FETCH_LIMIT))
    IN  /\ IsSome(url)
        /\ IsSome(issue_number(Unwrap(url)))
        /\ LET n == Unwrap(issue_number(Unwrap(url)))
           IN  n \in DOMAIN issues /\ issues[n].state = "closed"

\* C13 (as the specification states it): when the cycles are scheduled fairly
\* and the external calls succeed from some point on, every thread whose
\* scanned messages link a ticket that stays closed, and that no open ticket
\* names, is eventually both locked and archived, also when it starts out
\* locked but not archived.  (Stated for configurations whose guild and forum
\* ids are numbers.)
C13_ClosedConverges_AsStated ==
    \A t \in ThreadIds :
        (/\ ClosedTicketLinked(t)
         /\ ~OpenTicketNames(t)
         /\ \A p \in Projects : ids_parse(p))
            ~> (threads[t].locked /\ threads[t].archived)

\* a send of the notification of action a to thread t is in the history
Attempted(t, a) ==
    \E i \in 1..Len(calls) :
        /\ calls[i].op = "send_message"
        /\ calls[i].thread = t
        /\ calls[i].content = (IF a = "reopen" THEN MSG_ISSUE_REOPENED
                               ELSE MSG_ISSUE_CLOSED)

\* an issue of the tracker is closed and its title decodes to thread t
ClosedTicketNames(t) ==
    \E n \in 1..Len(issues) :
        /\ issues[n].state = "closed"
        /\ extract_thread_id(issues[n].title) = Some(t)

\* thread t is not in the state its ticket asks for, and action a would bring
\* it there
Adrift(t, a) ==
    IF a = "reopen"
    THEN OpenTicketNames(t) /\ (threads[t].locked \/ threads[t].archived)
    ELSE /\ ClosedTicketNames(t) /\ ~OpenTicketNames(t)
         /\ ~threads[t].locked /\ ~threads[t].archived

\* a step whose send or edit to thread t failed leaves the flags of t alone
FlagsKept ==
    \A t \in ThreadIds :
        (\E i \in 1..Len(calls') :
            /\ i > (IF pc = "search" THEN 0 ELSE Len(calls))
            /\ IsCorrective(calls'[i]) /\ calls'[i].thread = t /\ ~calls'[i].ok)
        => /\ threads'[t].locked = threads[t].locked
           /\ threads'[t].archived = threads[t].archived

\* C14 (as the specification states it): a corrective action that fails leaves
\* the flags of its thread as they were, and if a corrective action for a
\* thread failed in a project's cycle and the thread is still adrift, the
\* project's next cycle attempts the same action for the thread again.  (Read
\* at the end of a next cycle whose own calls all succeeded: an attempt that
\* was made has then ended the drift.)
C14_Retry_AsStated ==
    /\ [][FlagsKept]_vars
    /\ []((CycleEnded /\ AllOk(calls)) =>
             \A fa \in previous_failed[Owner] :
                 Attempted(fa[1], fa[2]) \/ ~Adrift(fa[1], fa[2]))

\* C15 (as the specification states it): the cycle of a project whose guild id
\* or forum id is no number issues no send and no edit, and the tick it belongs
\* to still reconciles every project.
C15_ConfigError_AsStated ==
    /\ (Owner \in Projects /\ ~ids_parse(Owner)) => NoCorrectiveCall
    /\ (pc = "tick" /\ ret.project # 0)
          => reconciled = [i \in 1..Len(config.projects) |-> i]

\* the lookups of the history that failed
FailedLookups == {i \in Lookups : ~calls[i].ok}

\* the lookups of the history whose reopen failed in the send or in the edit
FailedReopens ==
    {i \in Lookups :
        \E j \in {i + 1, i + 2} :
            /\ j <= Len(calls)
            /\ \A k \in (i + 1)..j : IsCorrective(calls[k])
            /\ ~calls[j].ok}

\* C16: a channel lookup that fails for the id of an open ticket is a normal
\* outcome: sync_open_issue makes no further call and returns Ok(false), the
\* next call of the cycle is the lookup for the next ticket or the listing of
\* the sweep, the id is counted in missing_threads (which counts the failed
\* lookups and the failed reopens, existing_threads the rest), and every
\* ticket the search returned gets its lookup.  (Read while the open pass runs
\* and when it has ended; the sweep adds no lookup and counts nothing.)
C16_NotFound ==
    /\ pc = "open" =>
          sync_open_issue(project, open_thread_id, 1) =
              [calls |-> <<GetChannelCall(open_thread_id, FALSE)>>,
               result |-> "Ok(false)"]
    /\ pc \in {"open", "list"} =>
          /\ \A i \in FailedLookups :
                i < Len(calls) =>
                    calls[i + 1].op \in {"get_channel", "get_active_threads"}
          /\ missing_threads = Cardinality(FailedLookups \cup FailedReopens)
          /\ existing_threads + missing_threads = Cardinality(Lookups)
          /\ Cardinality(Lookups) = Processed

\* the lookup for the first of two open tickets has failed, the ticket is
\* counted as missing, the second ticket has had its lookup and the open pass
\* has ended
C16_Witness ==
    /\ pc = "list"
    /\ Len(open_issues) = 2
    /\ \E i \in FailedLookups : \E j \in Lookups : i < j /\ calls[j].ok
    /\ missing_threads = 1
    /\ existing_threads = 1

----------------------------------------------------------------------------
(* Properties of the codec *)

\* the decimal numerals of the catalogue that denote a u64: ASCII digits, no
\* leading zero, at most 2^64 - 1
CanonicalIds ==
    {c \in GroupContents :
        /\ c # <<>>
        /\ \A i \in 1..Len(c) : IsAsciiDigit(c[i])
        /\ strip_zeros(c) = c
        /\ digits_leq(c, U64_MAX_DIGITS)}

\* the u64 that a run of ASCII digits denotes, if it is within the range
IdValue(ds) ==
    LET sig == strip_zeros(ds)
    IN  IF Len(sig) <= 9 THEN digits_value(sig) ELSE sig

\* C17: decoding the canonical suffix "[<decimal id>]" of a thread id of the
\* u64 range returns Some(id), 2^64 - 1 included; so does decoding the title
\* that the issue command builds from a name and an id.
C17_RoundTrip ==
    /\ \A id \in CanonicalIds :
          (given_title = Bracketed(id) /\ IsSome(decoded))
              => Unwrap(decoded) = Some(IdValue(id))
    /\ \A n \in 0..99 : extract_thread_id(issue_title(<<"x">>, n)) = Some(n)

\* the suffix of the largest u64 has been decoded to that id
C17_Witness ==
    /\ given_title = Bracketed(U64_MAX_DIGITS)
    /\ decoded = Some(Some(U64_MAX_DIGITS))

\* the bracketed runs of ASCII digits of a title, as <<position of '[',
\* position of ']'>>
AsciiRuns(title) ==
    {r \in (1..Len(title)) \X (1..Len(title)) :
        /\ r[1] + 1 < r[2]
        /\ title[r[1]] = "[" /\ title[r[2]] = "]"
        /\ \A k \in (r[1] + 1)..(r[2] - 1) : IsAsciiDigit(title[k])}

\* C18: for a title that holds no bracketed run of digits, a title without
\* any bracket and a title whose brackets hold something else than digits
\* included, extract_thread_id returns None.
C18_NonMatch ==
    (IsSome(decoded) /\ AsciiRuns(given_title) = {}) => Unwrap(decoded) = None

\* a title whose brackets hold no digits, followed by digits outside brackets,
\* has been decoded to None
C18_Witness ==
    /\ given_title =
          Bracketed(<<"n", "o", "t", "-", "a", "-", "n", "u", "m", "b", "e", "r">>)
              \o <<"#", "7">>
    /\ decoded = Some(None)

\* the digits of the leftmost bracketed run of ASCII digits of a title
FirstRunDigits(title) ==
    LET r == CHOOSE r \in AsciiRuns(title) :
                 \A q \in AsciiRuns(title) : r[1] <= q[1]
    IN  SubSeq(title, r[1] + 1, r[2] - 1)

\* a run of ASCII digits denotes a number of the u64 range
InU64(ds) == digits_leq(strip_zeros(ds), U64_MAX_DIGITS)

\* C19 (as the specification states it): for a title that holds a bracketed
\* run of ASCII digits, extract_thread_id returns the value of the first such
\* run, wherever the run is placed and whatever bracketed text stands around
\* it.  (Stated for runs that denote a u64.)
C19_FirstOccurrence_AsStated ==
    (/\ IsSome(decoded)
     /\ AsciiRuns(given_title) # {}
     /\ InU64(FirstRunDigits(given_title)))
        => Unwrap(decoded) = Some(IdValue(FirstRunDigits(given_title)))

\* C20: for a title whose first bracketed run of ASCII digits denotes a number
\* greater than 2^64 - 1, extract_thread_id returns None: the value is not
\* wrapped or clipped, whatever follows the run; and the call returns an
\* Option for every title.
C20_Overflow ==
    /\ (/\ IsSome(decoded)
        /\ AsciiRuns(given_title) # {}
        /\ ~InU64(FirstRunDigits(given_title)))
          => Unwrap(decoded) = None
    /\ IsSome(decoded) =>
          \/ Unwrap(decoded) = None
          \/ /\ IsSome(Unwrap(decoded))
             /\ AsciiRuns(given_title) # {}

\* a title whose first run is 2^64 and whose second run is an id has been
\* decoded to None
C20_Witness ==
    /\ given_title = Bracketed(U64_MAX_PLUS_ONE) \o Bracketed(<<"7">>)
    /\ decoded = Some(None)

----------------------------------------------------------------------------
(* Properties of the configuration *)

\* the sections from which the loaded configuration comes and that leave out
\* the field
SectionsWithout(field) ==
    {section \in SyncSections :
        /\ load_sync(section) = config.sync
        /\ (IsSome(section) => ~IsSome(Unwrap(section)[field]))}

\* C21 (as the specification states it): when the sync section or one of its
\* fields is absent from the configuration, start runs with enabled = true
\* and with interval_seconds = 60.
C21_Defaults_AsStated ==
    pc # "start" =>
        /\ SectionsWithout("enabled") # {} =>
              (sync_config(config).enabled /\ pc # "returned")
        /\ SectionsWithout("interval_seconds") # {} =>
              sync_config(config).interval_seconds = 60

----------------------------------------------------------------------------
(* Properties of the order and of the guards of a cycle *)

\* the part of sync_project a call belongs to: the search, the open-ticket
\* pass, the listing, the sweep
Phase(c) ==
    IF c.op = "search" THEN 1
    ELSE IF c.op = "get_channel" THEN 2
    ELSE IF c.op = "send_message" /\ c.content = MSG_ISSUE_REOPENED THEN 2
    ELSE IF c.op = "edit_thread" /\ ~c.locked THEN 2
    ELSE IF c.op = "get_active_threads" THEN 3
    ELSE 4

\* the thread ids that the titles of the search result decode to
SnapshotOf(found) ==
    {t \in 0..MaxThread :
        \E k \in 1..Len(found) : extract_thread_id(found[k].title) = Some(t)}

\* a step of the open-ticket pass or of the sweep leaves the set of open thread
\* ids as it is
SnapshotKept ==
    pc \in {"open", "list", "sweep"} => open_thread_ids' = open_thread_ids

\* C22: in a project's cycle the search is the first call and the only search,
\* every call of the open-ticket pass comes before the listing of the threads
\* and every call of the sweep after it; the set of open thread ids is the one
\* decoded from the search result when the open-ticket pass ends, and no step
\* of the open-ticket pass or of the sweep changes it.
C22_SnapshotOrder ==
    /\ [](CycleEnded =>
            /\ calls[1].op = "search"
            /\ \A i, j \in 1..Len(calls) :
                  i < j => /\ Phase(calls[i]) <= Phase(calls[j])
                           /\ Phase(calls[j]) \notin {1, 3} \/ Phase(calls[i]) # Phase(calls[j]))
    /\ [](pc = "list" => open_thread_ids = SnapshotOf(open_issues))
    /\ [][SnapshotKept]_vars

\* a cycle has ended that looked up a thread in its open-ticket pass and
\* fetched the messages of another in its sweep, with a snapshot that is not
\* empty
C22_Witness ==
    /\ CycleEnded
    /\ open_thread_ids # {}
    /\ \E i, j \in 1..Len(calls) :
          /\ calls[i].op = "get_channel"
          /\ calls[j].op = "messages"
          /\ calls[j].thread \notin open_thread_ids

\* the ticket number in the last segment of the URL that the scan of the
\* fetched messages yields, if the scan yields a URL and the segment is a number
LinkedNumber(fetched) ==
    IF IsSome(discover(fetched))
    THEN parse_u64(Unwrap(discover(fetched))[Len(Unwrap(discover(fetched)))])
    ELSE None

IsFetch(c) == c.op = "messages" /\ c.ok

\* calls[i] is the end of a visit of the sweep that found nothing to close: a
\* fetch that yields no ticket number, a lookup that failed or a lookup that
\* returned an open ticket
QuietEnd(i) ==
    \/ IsFetch(calls[i]) /\ ~IsSome(LinkedNumber(calls[i].fetched))
    \/ calls[i].op = "get_issue" /\ (~calls[i].ok \/ calls[i].content = "open")

\* C23: every closed notice follows, for the same thread, a successful lookup
\* that returned a closed ticket, which follows a fetch whose URL ends in the
\* number of a closed ticket; after a fetch that yields no number, a failed
\* lookup or a lookup of an open ticket no message is sent to the thread and it
\* is not edited, and the sweep goes on to the next thread.
C23_CloseGuarded ==
    \A i \in 1..Len(calls) :
        /\ IsSend(calls[i], calls[i].thread, MSG_ISSUE_CLOSED) =>
              /\ i >= 3
              /\ calls[i - 1].op = "get_issue" /\ calls[i - 1].ok
              /\ calls[i - 1].content = "closed"
              /\ calls[i - 1].thread = calls[i].thread
              /\ IsFetch(calls[i - 2]) /\ calls[i - 2].thread = calls[i].thread
              /\ IsSome(LinkedNumber(calls[i - 2].fetched))
              /\ Unwrap(LinkedNumber(calls[i - 2].fetched)) \in DOMAIN issues
              /\ issues[Unwrap(LinkedNumber(calls[i - 2].fetched))].state = "closed"
        /\ calls[i].op = "get_issue" =>
              /\ i >= 2
              /\ IsFetch(calls[i - 1]) /\ calls[i - 1].thread = calls[i].thread
              /\ IsSome(LinkedNumber(calls[i - 1].fetched))
        /\ QuietEnd(i) =>
              /\ \A j \in (i + 1)..Len(calls) :
                    IsCorrective(calls[j]) => calls[j].thread # calls[i].thread
              /\ i < Len(calls) =>
                    IsFetch(calls[i + 1]) \/ calls[i + 1].op = "get_issue"
                        \/ ~calls[i + 1].ok
              /\ i = Len(calls) => pc = "sweep" \/ ti > Len(active_threads)

\* a cycle has ended whose sweep fetched a notification of a closed ticket,
\* failed to look the ticket up, left the thread as it was and visited every
\* thread of the listing
C23_Witness ==
    /\ CycleEnded
    /\ ti > Len(active_threads)
    /\ \E i \in 2..Len(calls) :
          /\ i = Len(calls)
          /\ calls[i].op = "get_issue" /\ ~calls[i].ok
          /\ Unwrap(LinkedNumber(calls[i - 1].fetched)) \in DOMAIN issues
          /\ issues[Unwrap(LinkedNumber(calls[i - 1].fetched))].state = "closed"
          /\ ~threads[calls[i].thread].locked
          /\ ~threads[calls[i].thread].archived

AnyEdit(c) == c.op = "edit_thread"

FailedSend(c) == c.op = "send_message" /\ ~c.ok

NoticedWith(text) ==
    {calls[i].thread : i \in {k \in 1..Len(calls) : IsSend(calls[k], calls[k].thread, text)}}

\* C25: in the cycle in hand no thread is sent both a reopened and a closed
\* notice: a reopened notice goes to a thread of the open thread ids only and
\* a closed notice to a thread outside them only.
C25_Exclusive ==
    /\ NoticedWith(MSG_ISSUE_REOPENED) \cap NoticedWith(MSG_ISSUE_CLOSED) = {}
    /\ NoticedWith(MSG_ISSUE_REOPENED) \subseteq open_thread_ids
    /\ NoticedWith(MSG_ISSUE_CLOSED) \cap open_thread_ids = {}

\* a cycle has ended that reopened a thread whose newest notification links a
\* closed ticket, listed it as an open post and swept every thread of the
\* listing
C25_Witness ==
    /\ CycleEnded
    /\ ti > Len(active_threads)
    /\ \E t \in NoticedWith(MSG_ISSUE_REOPENED) :
          /\ \E k \in 1..Len(active_threads) :
                /\ active_threads[k].id = t
                /\ ~active_threads[k].locked /\ ~active_threads[k].archived
          /\ IsSome(LinkedNumber(messages[t]))
          /\ Unwrap(LinkedNumber(messages[t])) \in DOMAIN issues
          /\ issues[Unwrap(LinkedNumber(messages[t]))].state = "closed"

----------------------------------------------------------------------------
(* Properties of the issue command beside the syncer *)

\* command c has created an open issue whose title decodes to its thread and
\* has posted the notification of it
Filed(c) ==
    /\ commands[c].pc = "done"
    /\ commands[c].issue \in DOMAIN issues
    /\ ~commands[c].was_updated
    /\ issues[commands[c].issue].state = "open"
    /\ extract_thread_id(issues[commands[c].issue].title) = Some(commands[c].thread)

\* the window holds the notification that command c posts
Notified(fetched, c) ==
    \E k \in 1..Len(fetched) :
        fetched[k] = issue_notification(MSG_ISSUE_CREATED,
                                        config.projects[commands[c].project].github_owner,
                                        commands[c].issue)

\* C26 as stated: when a command has created an open issue for a thread and
\* posted its notification, and a sweep whose set of open thread ids lacks the
\* thread fetches a window that holds the notification, no closed notice is
\* sent to the thread after that fetch.
C26_StaleSnapshot_AsStated ==
    \A c \in CommandIds :
        (Filed(c) /\ commands[c].thread \notin open_thread_ids) =>
            \A i \in 1..Len(calls) :
                (/\ IsFetch(calls[i])
                 /\ calls[i].thread = commands[c].thread
                 /\ Notified(calls[i].fetched, c)) =>
                    \A j \in (i + 1)..Len(calls) :
                        ~IsSend(calls[j], commands[c].thread, MSG_ISSUE_CLOSED)

\* command c holds an issue whose title carries the id of the command's thread
HoldsTicket(c) ==
    /\ commands[c].issue \in DOMAIN issues
    /\ commands[c].issue \in title_search(commands[c].project, commands[c].thread)

\* C27 as stated: two commands invoked in the same thread never leave the
\* tracker with two issues whose titles carry the thread's id: the issues they
\* updated or created are one and the same.
C27_OneTicket_AsStated ==
    \A c, d \in CommandIds :
        (/\ HoldsTicket(c) /\ HoldsTicket(d)
         /\ commands[c].thread = commands[d].thread) =>
            commands[c].issue = commands[d].issue

\* C28 as stated: the title of every issue that a command created, built from
\* the name and the id of the command's thread, is decoded by extract_thread_id
\* to that thread's id.
C28_TitleDecodes_AsStated ==
    \A c \in CommandIds :
        (commands[c].issue \in DOMAIN issues /\ ~commands[c].was_updated) =>
            /\ issues[commands[c].issue].title =
                  issue_title(threads[commands[c].thread].name, commands[c].thread)
            /\ extract_thread_id(issues[commands[c].issue].title)
                  = Some(commands[c].thread)

----------------------------------------------------------------------------
(* Properties of the discovery of a thread's ticket *)

\* the positions of the messages of the window that are a bot's and hold a
\* notification embed with a URL
Matching(fetched) == {k \in 1..Len(fetched) : IsSome(message_url(fetched[k]))}

\* the URL of the first such message in fetch order
FirstMatch(fetched) ==
    IF Matching(fetched) = {} THEN None
    ELSE message_url(fetched[CHOOSE k \in Matching(fetched) :
                                 \A m \in Matching(fetched) : k <= m])

\* the call after calls[i] is the lookup of an issue for the same thread
LooksUp(i) ==
    /\ i < Len(calls)
    /\ calls[i + 1].op = "get_issue"
    /\ calls[i + 1].thread = calls[i].thread

\* C29 as stated: the link the sweep acts on is the URL of the first matching
\* message of the fetched window: the sweep looks an issue up after a fetch
\* only if that URL ends in a number, and a lookup that succeeds returns the
\* state of the issue with that number.
C29_FirstMatch_AsStated ==
    \A i \in 1..Len(calls) :
        (IsFetch(calls[i]) /\ LooksUp(i)) =>
            LET url == FirstMatch(calls[i].fetched)
                n == parse_u64(Unwrap(url)[Len(Unwrap(url))])
            IN  /\ IsSome(url)
                /\ IsSome(n)
                /\ (calls[i + 1].ok /\ Unwrap(n) \in DOMAIN issues) =>
                      calls[i + 1].content = issues[Unwrap(n)].state

\* the messages of the window that this bot wrote and that hold an embed titled
\* with the created or the updated marker
OwnNotifications(fetched) ==
    {k \in 1..Len(fetched) :
        /\ fetched[k].author = CardiBot
        /\ \E e \in 1..Len(fetched[k].embeds) :
              fetched[k].embeds[e].title \in {Some(MSG_ISSUE_CREATED),
                                              Some(MSG_ISSUE_UPDATED)}}

\* C30 as stated: after the fetch of a window that holds no notification
\* written by this bot the sweep looks no issue up and sends no closed notice
\* to the thread.
C30_OwnNotifications_AsStated ==
    \A i \in 1..Len(calls) :
        (IsFetch(calls[i]) /\ OwnNotifications(calls[i].fetched) = {}) =>
            /\ ~LooksUp(i)
            /\ \A j \in (i + 1)..Len(calls) :
                  ~IsSend(calls[j], calls[i].thread, MSG_ISSUE_CLOSED)

----------------------------------------------------------------------------
(* Properties of the fetched window, of the listing of tickets and of the    *)
(* prefixes                                                                  *)

\* thread t holds more messages than a fetch returns and none of the newest
\* DISCORD_MESSAGE_FETCH_LIMIT is a notification that links a ticket
Buried(t) ==
    /\ Len(messages[t]) > DISCORD_MESSAGE_FETCH_LIMIT
    /\ \A k \in 1..DISCORD_MESSAGE_FETCH_LIMIT : ~IsNotification(messages[t][k])
    /\ \E k \in (DISCORD_MESSAGE_FETCH_LIMIT + 1)..Len(messages[t]) :
          IsNotification(messages[t][k])

\* C31: a fetch returns at most DISCORD_MESSAGE_FETCH_LIMIT messages, the newest
\* of the thread; for a thread whose only notification lies beyond them the
\* fetch returns no notification, no issue is looked up, nothing is sent to it
\* and it is not edited, in the first cycle and in every cycle after it.
C31_Window ==
    /\ \A i \in 1..Len(calls) :
          IsFetch(calls[i]) =>
              /\ Len(calls[i].fetched) <= DISCORD_MESSAGE_FETCH_LIMIT
              /\ Len(calls[i].fetched) <= Len(messages[calls[i].thread])
    /\ \A t \in ThreadIds :
          Buried(t) =>
              \A i \in 1..Len(calls) :
                  calls[i].thread = t =>
                      /\ calls[i].op \in {"messages", "get_channel"}
                      /\ IsFetch(calls[i]) =>
                                        /\ ~Linked(calls[i].fetched)
                                        /\ Len(calls[i].fetched)
                                              = DISCORD_MESSAGE_FETCH_LIMIT

\* the second cycle or a later one of the first project has ended; it fetched
\* the window of a thread whose notification lies beyond it and links a closed
\* ticket, and the thread is open as before
C31_Witness ==
    /\ CycleEnded
    /\ Owner = 1
    /\ previous[1] # "none"
    /\ issues[1].state = "closed"
    /\ Buried(1)
    /\ \E i \in 1..Len(calls) : IsFetch(calls[i]) /\ calls[i].thread = 1
    /\ ~threads[1].locked /\ ~threads[1].archived

\* the numbers of the issues of the repository in the given state
Tickets(repo, state) ==
    {n \in DOMAIN issues : issues[n].repo = repo /\ issues[n].state = state}

Decodable(n) == IsSome(extract_thread_id(issues[n].title))

\* the search of the project in hand returns, and the tracker and the chat
\* platform are as before and the history holds the search and nothing else
SearchReadOnly ==
    pc = "search" =>
        /\ UNCHANGED <<issues, threads, messages>>
        /\ Len(calls') = 1 /\ calls'[1].op = "search"

\* C32: the list that a successful search leaves to the cycle holds each open
\* ticket of the project's repository whose title decodes, once, with its
\* title, and no other ticket; the open thread ids are the ids of these
\* tickets and the open-ticket pass looks up no more threads than there are
\* such tickets; the step of the search changes neither the tracker nor the
\* chat platform and makes the search request only.
C32_Listing ==
    /\ [](pc \in {"open", "list", "sweep"} =>
            /\ {open_issues[k].number : k \in 1..Len(open_issues)}
                  = {n \in Tickets(project, "open") : Decodable(n)}
            /\ Len(open_issues)
                  = Cardinality({n \in Tickets(project, "open") : Decodable(n)})
            /\ \A k \in 1..Len(open_issues) :
                  open_issues[k].title = issues[open_issues[k].number].title
            /\ open_thread_ids
                  = {Unwrap(extract_thread_id(issues[n].title)) :
                        n \in {m \in Tickets(project, "open") : Decodable(m)}}
            /\ Cardinality(Lookups) <= Len(open_issues))
    /\ [][SearchReadOnly]_vars

\* the first project's search has succeeded; it passed by an open ticket whose
\* title does not decode and returned an open ticket whose title does
C32_Witness ==
    /\ pc = "open"
    /\ project = 1
    /\ Len(open_issues) = 1
    /\ \E n \in Tickets(1, "open") : ~Decodable(n)
    /\ calls = <<SearchCall(TRUE)>>

\* the name starts with one of the thread_prefixes of the sync configuration
Configured(thread_name) ==
    \E i \in 1..Len(sync_config(config).thread_prefixes) :
        starts_with(thread_name, sync_config(config).thread_prefixes[i])

\* C33 as stated: the sweep looks for a ticket of a thread, and closes it, only
\* if the thread's name starts with one of the configured prefixes: every
\* fetch of a thread's messages and every closed notice is for such a thread.
C33_ConfiguredPrefixes_AsStated ==
    \A i \in 1..Len(calls) :
        (calls[i].op = "messages" \/ IsSend(calls[i], calls[i].thread, MSG_ISSUE_CLOSED))
            => Configured(threads[calls[i].thread].name)

----------------------------------------------------------------------------
(* Properties of the scheduler *)

AllProjects == [i \in 1..Len(config.projects) |-> i]

\* a pass over the projects begins only at the await of the interval, after the
\* pass before it has been through every project
PassBegins ==
    (pc' = "search" /\ project' = 1) =>
        /\ pc = "tick"
        /\ reconciled = <<>> \/ reconciled = AllProjects
        /\ reconciled' = <<>>

C35_InsideForum_AsStated ==
    \A i \in 1..Len(calls) :
        IsCorrective(calls[i]) =>
            threads[calls[i].thread].parent_id
                = parse_u64(config.projects[Owner].discord_forum_id)

\* C36 as stated: when the sync configuration is enabled, whatever its
\* interval, start neither returns nor dies: once polled it is in its loop.
C36_Survives_AsStated ==
    (sync_config(config).enabled /\ pc # "start") =>
        pc \in {"tick", "search", "open", "list", "sweep"}

-----------------------------------------------------------------------------
(* Properties of a cycle as a function of what it observes.                  *)

\* The calls of the open pass from ticket n on, read off the tracker and the
\* chat platform as they are: one channel fetch per open ticket of the
\* project whose title names a thread, in the search's order.
RECURSIVE ObservedOpenPass(_, _)
ObservedOpenPass(p, n) ==
    IF n > MaxIssue THEN <<>>
    ELSE (IF n \in Tickets(p, "open") /\ Decodable(n)
          THEN <<GetChannelCall(Unwrap(extract_thread_id(issues[n].title)), TRUE)>>
          ELSE <<>>) \o ObservedOpenPass(p, n + 1)

\* The threads the open tickets of project p name.
ObservedIds(p) ==
    {Unwrap(extract_thread_id(issues[n].title)) :
        n \in {m \in Tickets(p, "open") : Decodable(m)}}

\* The newest messages of thread t, as many as one fetch returns.
ObservedWindow(t) ==
    SubSeq(messages[t], 1,
           IF Len(messages[t]) < DISCORD_MESSAGE_FETCH_LIMIT THEN Len(messages[t])
           ELSE DISCORD_MESSAGE_FETCH_LIMIT)

\* The calls of the sweep from thread t on, read off the external state: a
\* fetch for every unlocked, unarchived, prefixed thread of the project's
\* forum that no open ticket names, and a look-up of the ticket it links.
RECURSIVE ObservedSweep(_, _)
ObservedSweep(p, t) ==
    IF t > MaxThread THEN <<>>
    ELSE (IF /\ threads[t].parent_id = Some(ForumId(p))
             /\ has_valid_prefix(threads[t].name)
             /\ ~threads[t].locked /\ ~threads[t].archived
             /\ t \notin ObservedIds(p)
          THEN <<MessagesCall(t, TRUE, ObservedWindow(t))>>
               \o (IF IsSome(LinkedNumber(ObservedWindow(t)))
                   THEN <<GetIssueCall(t, "open", TRUE)>>
                   ELSE <<>>)
          ELSE <<>>) \o ObservedSweep(p, t + 1)

ObservedCalls(p) ==
    <<SearchCall(TRUE)>> \o ObservedOpenPass(p, 1) \o <<ListCall(TRUE)>>
        \o ObservedSweep(p, 1)

-----------------------------------------------------------------------------
(* Properties of who may file through the issue command.                     *)

\* The command was invoked in a thread whose forum, with the guild, is that of
\* a configured project, by a member who holds the role the project asks for.
Authorized(c) ==
    /\ commands[c].thread \in DOMAIN threads
    /\ IsSome(threads[commands[c].thread].parent_id)
    /\ \E p \in Projects :
          /\ config.projects[p].discord_guild_id = to_string(CommandGuild)
          /\ config.projects[p].discord_forum_id
                = to_string(Unwrap(threads[commands[c].thread].parent_id))
          /\ \/ config.projects[p].allowed_role_id = None
             \/ \E r \in commands[c].roles :
                   parse_u64(Unwrap(config.projects[p].allowed_role_id)) = Some(r)

\* The command has reached the tracker: it searched, or stands before or past
\* its write.
ReachedTracker(c) ==
    \/ commands[c].project # 0
    \/ commands[c].pc \in {"write", "notify"}
    \/ commands[c].issue # 0

\* A step that changes the tracker or the messages of a thread is the write
\* or the notification of an authorized command, in its own thread.
ChangesAuthorized ==
    /\ issues' # issues =>
          \E c \in CommandIds : commands[c].pc = "write" /\ Authorized(c)
    /\ messages' # messages =>
          \E c \in CommandIds :
             /\ commands[c].pc = "notify" /\ Authorized(c)
             /\ \A t \in ThreadIds :
                   t # commands[c].thread => messages'[t] = messages[t]

\* C38: the issue command reaches the tracker (search, create, update) only
\* when its channel is a thread, the guild and the thread's forum are those of
\* a configured project and the member holds the role that project asks
\* for, if any; a command turned away ends at once, and the tracker and the
\* threads' messages change only by an authorized command.
C38_Authorized ==
    /\ [](\A c \in CommandIds :
            /\ ReachedTracker(c) => Authorized(c)
            /\ (commands[c].pc # "idle" /\ ~Authorized(c)) =>
                  commands[c].pc = "done")
    /\ [][ChangesAuthorized]_vars

\* One member without the role was turned away in a thread of the project's
\* forum, and one who holds it filed an issue and was notified there.
C38_Witness ==
    \E c, d \in CommandIds :
       /\ IsSome(config.projects[1].allowed_role_id)
       /\ commands[c].pc = "done" /\ commands[c].thread = 1
       /\ commands[c].roles = {} /\ ~ReachedTracker(c)
       /\ commands[d].pc = "done" /\ commands[d].thread = 1
       /\ commands[d].roles # {} /\ commands[d].issue # 0
       /\ messages[1] # <<>>

-----------------------------------------------------------------------------
(* Properties of the tool that archives locked threads.                      *)

\* Thread t, as it is, is one the tool is to archive for project p: under
\* the project's forum, named with a recognized prefix, locked, not archived.
LeftLocked(p, t) ==
    /\ threads[t].parent_id = parse_u64(config.projects[p].discord_forum_id)
    /\ \E prefix \in {PREFIX_BUG, PREFIX_FEATURE, PREFIX_QUESTION, PREFIX_FEEDBACK} :
          /\ Len(threads[t].name) >= Len(prefix)
          /\ SubSeq(threads[t].name, 1, Len(prefix)) = prefix
    /\ threads[t].locked
    /\ ~threads[t].archived

\* A step of the tool issues an edit only for such a thread, and the edit
\* sets archived and nothing else; a step changes no thread but by such an
\* edit, and then only that thread and only its archived flag.
ArchiveFrame ==
    /\ archiver'.edits # archiver.edits /\ archiver'.edits # <<>> =>
          LET e == archiver'.edits[Len(archiver'.edits)]
          IN  /\ archiver'.edits = Append(archiver.edits, e)
              /\ LeftLocked(archiver.project, e.thread)
              /\ e.edit.archived = Some(TRUE) /\ e.edit.locked = None
              /\ threads' = IF e.ok
                            THEN [threads EXCEPT ![e.thread].archived = TRUE]
                            ELSE threads
    /\ threads' # threads => archiver'.edits # archiver.edits

\* C39: archive_project_threads edits only threads under the project's
\* forum that start with a recognized prefix and are locked but not archived;
\* the edit sets archived to true and leaves the locked flag; every other
\* thread is untouched; and the count it returns is the number of edits it
\* issued.
C39_ArchiveFrame ==
    /\ [][ArchiveFrame]_vars
    /\ [](archiver.pc \in {"list", "done"} /\ archiver.ret.result = "Ok" =>
            archiver.ret.count = Len(archiver.edits))

\* The tool is through: for some project it returned a count of one or more,
\* a thread it edited is archived and still locked, and a locked thread
\* outside the forum or without a prefix is still not archived.
C39_Witness ==
    /\ archiver.pc = "done"
    /\ archiver.ret.result = "Ok" /\ archiver.ret.count >= 1
    /\ \E i \in 1..Len(archiver.edits) :
          /\ threads[archiver.edits[i].thread].archived
          /\ threads[archiver.edits[i].thread].locked
    /\ \E t \in ThreadIds :
          /\ threads[t].locked /\ ~threads[t].archived
          /\ ~has_valid_prefix(threads[t].name)

====
